---- MODULE Spec2Model ----
(***************************************************************************)
(* Model of nhalm/dbutil: the cursor pagination helpers of pagination.go   *)
(* (EncodeCursor, DecodeCursor, ValidatePaginationParams, Paginate) and    *)
(* the parameter extraction of gen/query_analyzer.go (extractParameters).  *)
(*                                                                         *)
(* Strings are sequences of one-character strings, so that base64 and the  *)
(* placeholder regular expression are computed character by character.     *)
(* A UUID is a sequence of UUIDLen bytes (0..255).                         *)
(***************************************************************************)
EXTENDS Integers, Sequences, FiniteSets, TLC

VARIABLES
    c_op,        \* cursor helpers: the last helper called ("none" at start)
    c_in,        \* cursor helpers: its argument
    c_out,       \* cursor helpers: what it returned
    table,       \* pagination: the backing rows, ascending by id
    p_op,        \* pagination: "none", "call" (one Paginate call) or "walk"
    params,      \* pagination: PaginationParams of the last Paginate call
    qlog,        \* pagination: queryFunc calls made by the last Paginate call
    result,      \* pagination: *PaginationResult returned (NilPtr on error)
    err,         \* pagination: error returned by the last Paginate call
    pages,       \* pagination: Items of every page of the current walk
    x_sql,       \* analyzer: query.SQL
    x_params,    \* analyzer: query.Parameters (NilSlice until assigned)
    x_err,       \* analyzer: error returned by extractParameters
    x_done,      \* analyzer: extractParameters has run on x_sql
    x_type,      \* analyzer: query.Type
    x_columns,   \* analyzer: query.Columns (NilSlice until assigned)
    x_db,        \* analyzer: how the database answers (NilPtr: no pool)
    x_log,       \* analyzer: the operations issued against the database
    x_analyzed,  \* analyzer: AnalyzeQuery has returned
    g_state,     \* generator run: its lifecycle state
    g_cfg,       \* generator run: the Config
    g_env,       \* generator run: environment (variables, directories, faults)
    g_dir,       \* generator run: the output directory exists
    g_files,     \* generator run: the files of the output directory
    g_files0,    \* generator run: the files there before the run
    g_queue,     \* generator run: artifacts handed to emission, in order
    g_ops,       \* generator run: file operations performed, in order
    g_err,       \* generator run: the error surfaced
    t_op,        \* parser and type mapper: the last function called
    t_in,        \* parser and type mapper: its arguments
    t_out        \* parser and type mapper: what it returned

vars == <<c_op, c_in, c_out, table, p_op, params, qlog, result, err, pages,
          x_sql, x_params, x_err, x_done, x_type, x_columns, x_db, x_log,
          x_analyzed, g_state, g_cfg, g_env, g_dir, g_files, g_files0, g_queue,
          g_ops, g_err, t_op, t_in, t_out>>

cursorVars == <<c_op, c_in, c_out>>
pageVars == <<table, p_op, params, qlog, result, err, pages>>
analyzerVars == <<x_sql, x_params, x_err, x_done, x_type, x_columns, x_db,
                  x_log, x_analyzed>>
runVars == <<g_state, g_cfg, g_env, g_dir, g_files, g_files0, g_queue, g_ops,
             g_err>>
unitVars == <<t_op, t_in, t_out>>

-----------------------------------------------------------------------------
(* Sequences helpers *)

Min(a, b) == IF a < b THEN a ELSE b

RECURSIVE Concat(_)
Concat(ss) == IF ss = <<>> THEN <<>> ELSE Head(ss) \o Concat(Tail(ss))

Range(s) == {s[i] : i \in 1..Len(s)}

NoDuplicates(s) == \A i, j \in 1..Len(s) : i # j => s[i] # s[j]

-----------------------------------------------------------------------------
(* encoding/base64, RawURLEncoding: URL alphabet, no padding, not strict *)

B64Chars ==
    << "A","B","C","D","E","F","G","H","I","J","K","L","M","N","O","P",
       "Q","R","S","T","U","V","W","X","Y","Z","a","b","c","d","e","f",
       "g","h","i","j","k","l","m","n","o","p","q","r","s","t","u","v",
       "w","x","y","z","0","1","2","3","4","5","6","7","8","9","-","_" >>

B64Set == Range(B64Chars)

B64Index(c) == (CHOOSE i \in 1..Len(B64Chars) : B64Chars[i] = c) - 1

\* Encoding.EncodeToString: 3 bytes -> 4 characters; a tail of 1 byte -> 2
\* characters, of 2 bytes -> 3 characters; no padding character is written.
RECURSIVE EncodeToString(_)
EncodeToString(bytes) ==
    IF Len(bytes) = 0 THEN <<>>
    ELSE IF Len(bytes) = 1 THEN
        LET v == bytes[1] * 65536
        IN  << B64Chars[(v \div 262144) + 1],
               B64Chars[((v \div 4096) % 64) + 1] >>
    ELSE IF Len(bytes) = 2 THEN
        LET v == bytes[1] * 65536 + bytes[2] * 256
        IN  << B64Chars[(v \div 262144) + 1],
               B64Chars[((v \div 4096) % 64) + 1],
               B64Chars[((v \div 64) % 64) + 1] >>
    ELSE
        LET v == bytes[1] * 65536 + bytes[2] * 256 + bytes[3]
        IN  << B64Chars[(v \div 262144) + 1],
               B64Chars[((v \div 4096) % 64) + 1],
               B64Chars[((v \div 64) % 64) + 1],
               B64Chars[(v % 64) + 1] >>
            \o EncodeToString(SubSeq(bytes, 4, Len(bytes)))

\* The decoder skips '\r' and '\n' wherever they stand.
StripNewlines(s) == SelectSeq(s, LAMBDA c : c \notin {"\n", "\r"})

RECURSIVE DecodeQuanta(_)
DecodeQuanta(s) ==
    IF Len(s) = 0 THEN <<>>
    ELSE IF Len(s) = 2 THEN
        LET v == B64Index(s[1]) * 262144 + B64Index(s[2]) * 4096
        IN  << v \div 65536 >>
    ELSE IF Len(s) = 3 THEN
        LET v == B64Index(s[1]) * 262144 + B64Index(s[2]) * 4096
                 + B64Index(s[3]) * 64
        IN  << v \div 65536, (v \div 256) % 256 >>
    ELSE
        LET v == B64Index(s[1]) * 262144 + B64Index(s[2]) * 4096
                 + B64Index(s[3]) * 64 + B64Index(s[4])
        IN  << v \div 65536, (v \div 256) % 256, v % 256 >>
            \o DecodeQuanta(SubSeq(s, 5, Len(s)))

\* Encoding.DecodeString: CorruptInputError on a character outside the
\* alphabet (the padding character '=' included, as the encoding has none)
\* and on a last quantum of a single character; trailing bits are ignored.
DecodeString(s) ==
    LET t == StripNewlines(s)
    IN  IF (\E i \in 1..Len(t) : t[i] \notin B64Set) \/ Len(t) % 4 = 1
        THEN [data |-> <<>>, err |-> TRUE]
        ELSE [data |-> DecodeQuanta(t), err |-> FALSE]

-----------------------------------------------------------------------------
(* pagination.go: cursors *)

UUIDLen == 16

NilUUID == [i \in 1..UUIDLen |-> 0]

NoErr == "nil"

\* EncodeCursor with the uuid.Nil guard of its first lines dropped.
EncodeCursor_NoNilGuard(id) == EncodeToString(id)

EncodeCursor(id) ==
    IF id = NilUUID THEN <<>> ELSE EncodeToString(id)

\* DecodeCursor without the empty-string case of its first lines.
DecodeCursor_EmptyRejected(cursor) ==
    LET d == DecodeString(cursor)
    IN  IF d.err
        THEN [id |-> NilUUID, err |-> "decode: invalid cursor format"]
        ELSE IF Len(d.data) # UUIDLen
        THEN [id |-> NilUUID, err |-> "decode: invalid cursor length"]
        ELSE IF d.data = NilUUID
        THEN [id |-> NilUUID, err |-> "decode: cursor represents nil UUID"]
        ELSE [id |-> d.data, err |-> NoErr]

DecodeCursor(cursor) ==
    IF cursor = <<>> THEN [id |-> NilUUID, err |-> NoErr]
    ELSE LET d == DecodeString(cursor)
         IN  IF d.err
             THEN [id |-> NilUUID, err |-> "decode: invalid cursor format"]
             ELSE IF Len(d.data) # UUIDLen
             THEN [id |-> NilUUID, err |-> "decode: invalid cursor length"]
             ELSE IF d.data = NilUUID
             THEN [id |-> NilUUID, err |-> "decode: cursor represents nil UUID"]
             ELSE [id |-> d.data, err |-> NoErr]

-----------------------------------------------------------------------------
(* pagination.go: parameters, validation and Paginate *)

\* A Go pointer (or a nilable result) is a sequence of length 0 (nil) or 1.
NilPtr == <<>>

Ptr(v) == <<v>>

\* PaginationParams{Cursor *string, Limit int}
PaginationParams(cursor, limit) == [Cursor |-> cursor, Limit |-> limit]

\* The condition `params.Cursor != nil && *params.Cursor != ""`.
CursorProvided(p) == p.Cursor # NilPtr /\ p.Cursor[1] # <<>>

ValidatePaginationParams(p) ==
    IF p.Limit <= 0 THEN "validate: limit must be positive"
    ELSE IF CursorProvided(p) THEN DecodeCursor(p.Cursor[1]).err
    ELSE NoErr

\* HasID.GetID of the test entity.
GetID(item) == item.ID

\* The limit Paginate works with after validation: params.Limit itself.
EffectiveLimit(p) == p.Limit

\* The query function of the tests: the rows after the row whose id is the
\* cursor (from the first row when the cursor is nil; none when no row has
\* that id), at most `limit` of them, in the order of the backing rows.
QueryFunc(rows, cursorID, limit) ==
    LET found == {i \in 1..Len(rows) : cursorID # NilPtr /\ rows[i].ID = cursorID[1]}
        startIndex == IF cursorID = NilPtr THEN 0
                      ELSE IF found = {} THEN -1
                      ELSE CHOOSE i \in found : \A j \in found : i <= j
    IN  IF startIndex = -1 \/ startIndex >= Len(rows) THEN <<>>
        ELSE SubSeq(rows, startIndex + 1, Min(startIndex + limit, Len(rows)))

\* The error a failing query function returns, and the PaginationError
\* Paginate wraps it in.
QueryFailure == "database error"

QueryError == "query: failed to execute query"

\* PaginationError.Unwrap: the error a pagination error was built around.
Unwrap(e) == IF e = QueryError THEN QueryFailure ELSE NoErr

PaginateError(e, queries) == [result |-> NilPtr, err |-> e, queries |-> queries]

\* Paginate that keeps the extra row it asked for.
Paginate_KeepsExtraItem(p, rows, qfail) ==
    IF ValidatePaginationParams(p) # NoErr
    THEN PaginateError(ValidatePaginationParams(p), <<>>)
    ELSE
    LET cursorID == IF CursorProvided(p) THEN Ptr(DecodeCursor(p.Cursor[1]).id) ELSE NilPtr
        qlimit == p.Limit + 1
        items == QueryFunc(rows, cursorID, qlimit)
        call == [cursor |-> cursorID, limit |-> qlimit,
                 items |-> IF qfail THEN <<>> ELSE items,
                 err |-> IF qfail THEN QueryFailure ELSE NoErr]
        hasMore == Len(items) > p.Limit
        nextCursor == IF hasMore /\ Len(items) > 0
                      THEN Ptr(EncodeCursor(GetID(items[Len(items)])))
                      ELSE NilPtr
    IN  IF qfail THEN PaginateError(QueryError, <<call>>)
        ELSE [result |-> Ptr([Items |-> items, NextCursor |-> nextCursor,
                              HasMore |-> hasMore]),
              err |-> NoErr, queries |-> <<call>>]

\* Paginate with `hasMore := len(items) >= params.Limit`.
Paginate_HasMoreAtLimit(p, rows, qfail) ==
    IF ValidatePaginationParams(p) # NoErr
    THEN PaginateError(ValidatePaginationParams(p), <<>>)
    ELSE
    LET cursorID == IF CursorProvided(p) THEN Ptr(DecodeCursor(p.Cursor[1]).id) ELSE NilPtr
        qlimit == p.Limit + 1
        items == QueryFunc(rows, cursorID, qlimit)
        call == [cursor |-> cursorID, limit |-> qlimit,
                 items |-> IF qfail THEN <<>> ELSE items,
                 err |-> IF qfail THEN QueryFailure ELSE NoErr]
        hasMore == Len(items) >= p.Limit
        page == IF hasMore THEN SubSeq(items, 1, Min(p.Limit, Len(items))) ELSE items
        nextCursor == IF hasMore /\ Len(page) > 0
                      THEN Ptr(EncodeCursor(GetID(page[Len(page)])))
                      ELSE NilPtr
    IN  IF qfail THEN PaginateError(QueryError, <<call>>)
        ELSE [result |-> Ptr([Items |-> page, NextCursor |-> nextCursor,
                              HasMore |-> hasMore]),
              err |-> NoErr, queries |-> <<call>>]

\* Paginate that runs the query before it looks at the cursor: a cursor that
\* does not decode is reported only after the first page has been fetched.
Paginate_QueryBeforeValidate(p, rows, qfail) ==
    LET bad == CursorProvided(p) /\ DecodeCursor(p.Cursor[1]).err # NoErr
        cursorID == IF CursorProvided(p) /\ ~bad
                    THEN Ptr(DecodeCursor(p.Cursor[1]).id) ELSE NilPtr
        qlimit == p.Limit + 1
        items == QueryFunc(rows, cursorID, qlimit)
        call == [cursor |-> cursorID, limit |-> qlimit,
                 items |-> IF qfail THEN <<>> ELSE items,
                 err |-> IF qfail THEN QueryFailure ELSE NoErr]
        hasMore == Len(items) > p.Limit
        page == IF hasMore THEN SubSeq(items, 1, p.Limit) ELSE items
        nextCursor == IF hasMore /\ Len(page) > 0
                      THEN Ptr(EncodeCursor(GetID(page[Len(page)])))
                      ELSE NilPtr
    IN  IF p.Limit <= 0 THEN PaginateError("validate: limit must be positive", <<>>)
        ELSE IF qfail THEN PaginateError(QueryError, <<call>>)
        ELSE IF bad THEN PaginateError(DecodeCursor(p.Cursor[1]).err, <<call>>)
        ELSE [result |-> Ptr([Items |-> page, NextCursor |-> nextCursor,
                              HasMore |-> hasMore]),
              err |-> NoErr, queries |-> <<call>>]

\* Paginate that goes on with the items of a query that failed.
Paginate_IgnoresQueryError(p, rows, qfail) ==
    IF ValidatePaginationParams(p) # NoErr
    THEN PaginateError(ValidatePaginationParams(p), <<>>)
    ELSE IF CursorProvided(p) /\ DecodeCursor(p.Cursor[1]).err # NoErr
    THEN PaginateError(DecodeCursor(p.Cursor[1]).err, <<>>)
    ELSE
    LET cursorID == IF CursorProvided(p) THEN Ptr(DecodeCursor(p.Cursor[1]).id) ELSE NilPtr
        qlimit == p.Limit + 1
        items == IF qfail THEN <<>> ELSE QueryFunc(rows, cursorID, qlimit)
        call == [cursor |-> cursorID, limit |-> qlimit, items |-> items,
                 err |-> IF qfail THEN QueryFailure ELSE NoErr]
        hasMore == Len(items) > p.Limit
        page == IF hasMore THEN SubSeq(items, 1, p.Limit) ELSE items
        nextCursor == IF hasMore /\ Len(page) > 0
                      THEN Ptr(EncodeCursor(GetID(page[Len(page)])))
                      ELSE NilPtr
    IN  [result |-> Ptr([Items |-> page, NextCursor |-> nextCursor,
                         HasMore |-> hasMore]),
         err |-> NoErr, queries |-> <<call>>]

\* Paginate: validate, decode the cursor, run the query for Limit+1 rows
\* (the int32 conversion is the identity on every limit of this model),
\* trim the extra row and encode the id of the last kept row.
Paginate(p, rows, qfail) ==
    IF ValidatePaginationParams(p) # NoErr
    THEN PaginateError(ValidatePaginationParams(p), <<>>)
    ELSE IF CursorProvided(p) /\ DecodeCursor(p.Cursor[1]).err # NoErr
    THEN PaginateError(DecodeCursor(p.Cursor[1]).err, <<>>)
    ELSE
    LET cursorID == IF CursorProvided(p) THEN Ptr(DecodeCursor(p.Cursor[1]).id) ELSE NilPtr
        qlimit == p.Limit + 1
        items == QueryFunc(rows, cursorID, qlimit)
        call == [cursor |-> cursorID, limit |-> qlimit,
                 items |-> IF qfail THEN <<>> ELSE items,
                 err |-> IF qfail THEN QueryFailure ELSE NoErr]
        hasMore == Len(items) > p.Limit
        page == IF hasMore THEN SubSeq(items, 1, p.Limit) ELSE items
        nextCursor == IF hasMore /\ Len(page) > 0
                      THEN Ptr(EncodeCursor(GetID(page[Len(page)])))
                      ELSE NilPtr
    IN  IF qfail THEN PaginateError(QueryError, <<call>>)
        ELSE [result |-> Ptr([Items |-> page, NextCursor |-> nextCursor,
                              HasMore |-> hasMore]),
              err |-> NoErr, queries |-> <<call>>]

-----------------------------------------------------------------------------
(* gen/query_analyzer.go: extractParameters *)

Digits == <<"0", "1", "2", "3", "4", "5", "6", "7", "8", "9">>

IsDigit(c) == c \in Range(Digits)

DigitValue(c) == (CHOOSE i \in 1..Len(Digits) : Digits[i] = c) - 1

\* strconv.Atoi of a non-empty run of decimal digits (no run of this model
\* is long enough to overflow an int).
RECURSIVE Atoi(_)
Atoi(ds) ==
    IF Len(ds) = 0 THEN 0
    ELSE Atoi(SubSeq(ds, 1, Len(ds) - 1)) * 10 + DigitValue(ds[Len(ds)])

\* The last position of the longest run of digits that starts at position i
\* (i - 1 when s[i] is no digit).
RECURSIVE DigitsEnd(_, _)
DigitsEnd(s, i) ==
    IF i <= Len(s) /\ IsDigit(s[i]) THEN DigitsEnd(s, i + 1) ELSE i - 1

\* One match of `\$(\d+)(?:\D|$)` that starts at position p: the digits are
\* taken greedily, and the non-digit that follows them, when there is one,
\* belongs to the match.
MatchAt(s, p) ==
    LET q == DigitsEnd(s, p + 1)
        last == IF q < Len(s) THEN q + 1 ELSE q
    IN  [start |-> p, end |-> last,
         match |-> <<SubSeq(s, p, last), SubSeq(s, p + 1, q)>>]

CanMatchAt(s, p) ==
    p + 1 <= Len(s) /\ s[p] = "$" /\ IsDigit(s[p + 1])

\* regexp.FindAllStringSubmatch(sql, -1): the leftmost match, then the
\* leftmost match in what follows it, and so on; matches do not overlap.
RECURSIVE FindAllStringSubmatch(_, _)
FindAllStringSubmatch(s, from) ==
    LET starts == {p \in from..Len(s) : CanMatchAt(s, p)}
    IN  IF starts = {} THEN <<>>
        ELSE LET p == CHOOSE x \in starts : \A y \in starts : x <= y
                 m == MatchAt(s, p)
             IN  <<m.match>> \o FindAllStringSubmatch(s, m.end + 1)

\* A Go slice: NilSlice, or Slice(elements) (which may be empty).
NilSlice == <<>>

Slice(elems) == <<elems>>

Parameter(i) ==
    [Name |-> <<"param", i>>, Type |-> "text", GoType |-> "string", Index |-> i]

\* extractParameters(query): the new query.Parameters and the error (with
\* the index it names as missing). `old` is query.Parameters before the
\* call, kept when an error is returned.
extractParameters(sqlText, old) ==
    LET matches == FindAllStringSubmatch(sqlText, 1)
        paramMap == {Atoi(matches[k][2]) : k \in 1..Len(matches)}
        missing == {i \in 1..Cardinality(paramMap) : i \notin paramMap}
    IN  IF Len(matches) = 0
        THEN [Parameters |-> Slice(<<>>), err |-> NoErr, missing |-> 0]
        ELSE IF missing # {}
        THEN [Parameters |-> old, err |-> "parameter is missing",
              missing |-> CHOOSE i \in missing : \A j \in missing : i <= j]
        ELSE [Parameters |-> Slice([i \in 1..Cardinality(paramMap) |-> Parameter(i)]),
              err |-> NoErr, missing |-> 0]

-----------------------------------------------------------------------------
(* gen/types_mapping.go: the type mapper (Type Resolver) *)

\* A Go type expression is a sequence of tokens: <<"[]", "pgtype.Text">>.
BuiltinMappings ==
    [t \in {"uuid"} |-> "uuid.UUID"]
    @@ [t \in {"text", "varchar", "character varying"} |-> "string"]
    @@ [t \in {"smallint", "int2"} |-> "int16"]
    @@ [t \in {"integer", "int", "int4"} |-> "int32"]
    @@ [t \in {"bigint", "int8"} |-> "int64"]
    @@ [t \in {"real", "float4"} |-> "float32"]
    @@ [t \in {"double precision", "float8", "numeric", "decimal"} |-> "float64"]
    @@ [t \in {"boolean", "bool"} |-> "bool"]
    @@ [t \in {"date", "time", "timestamp", "timestamptz"} |-> "time.Time"]
    @@ [t \in {"bytea"} |-> "[]byte"]
    @@ [t \in {"json", "jsonb"} |-> "json.RawMessage"]

\* The driver's nullable scalar of a base Go type.
NullableScalars ==
    [string |-> "pgtype.Text", int16 |-> "pgtype.Int2", int32 |-> "pgtype.Int4",
     int64 |-> "pgtype.Int8", float32 |-> "pgtype.Float4",
     float64 |-> "pgtype.Float8", bool |-> "pgtype.Bool"]
    @@ [t \in {"time.Time"} |-> "pgtype.Timestamptz"]
    @@ [t \in {"uuid.UUID"} |-> "pgtype.UUID"]

\* makeNullable(goType): arrays keep their prefix, scalars take the driver's
\* nullable type, everything else becomes a pointer.
RECURSIVE makeNullable(_)
makeNullable(goType) ==
    IF Head(goType) = "[]" THEN <<"[]">> \o makeNullable(Tail(goType))
    ELSE IF Head(goType) \in DOMAIN NullableScalars
    THEN <<NullableScalars[Head(goType)]>>
    ELSE <<"*">> \o goType

UnsupportedType == "unsupported PostgreSQL type"

\* MapType(pgType, isNullable, isArray) of a mapper built with
\* customMappings (a function; the empty function for nil).
MapType_BuiltinFirst(customMappings, pgType, isNullable, isArray) ==
    LET known == pgType \in DOMAIN customMappings \/ pgType \in DOMAIN BuiltinMappings
        base == IF pgType \in DOMAIN BuiltinMappings THEN <<BuiltinMappings[pgType]>>
                ELSE IF pgType \in DOMAIN customMappings THEN <<customMappings[pgType]>>
                ELSE <<>>
        elem == IF isNullable THEN makeNullable(base) ELSE base
    IN  IF ~known THEN [goType |-> <<>>, err |-> UnsupportedType]
        ELSE [goType |-> IF isArray THEN <<"[]">> \o elem ELSE elem, err |-> NoErr]

MapType(customMappings, pgType, isNullable, isArray) ==
    LET known == pgType \in DOMAIN customMappings \/ pgType \in DOMAIN BuiltinMappings
        base == IF pgType \in DOMAIN customMappings THEN <<customMappings[pgType]>>
                ELSE IF pgType \in DOMAIN BuiltinMappings THEN <<BuiltinMappings[pgType]>>
                ELSE <<>>
        elem == IF isNullable THEN makeNullable(base) ELSE base
    IN  IF ~known THEN [goType |-> <<>>, err |-> UnsupportedType]
        ELSE [goType |-> IF isArray THEN <<"[]">> \o elem ELSE elem, err |-> NoErr]

\* NewTypeMapper(nil).customMappings
NoMappings == <<>>

-----------------------------------------------------------------------------
(* gen/query_analyzer.go: AnalyzeQuery against the database *)

QueryTypeOne == "one"

QueryTypeMany == "many"

QueryTypeExec == "exec"

QueryTypePaginated == "paginated"

QueryTypes == {QueryTypeOne, QueryTypeMany, QueryTypeExec, QueryTypePaginated}

isSelectQuery(queryType) ==
    queryType \in {QueryTypeOne, QueryTypeMany, QueryTypePaginated}

mapOIDToTypeName(oid) ==
    CASE oid = 16 -> "boolean"
      [] oid = 20 -> "bigint"
      [] oid = 21 -> "smallint"
      [] oid = 23 -> "integer"
      [] oid = 25 -> "text"
      [] oid = 700 -> "real"
      [] oid = 701 -> "double precision"
      [] oid = 1043 -> "varchar"
      [] oid = 1082 -> "date"
      [] oid = 1114 -> "timestamp"
      [] oid = 1184 -> "timestamptz"
      [] oid = 1700 -> "numeric"
      [] oid = 2950 -> "uuid"
      [] oid = 114 -> "json"
      [] oid = 3802 -> "jsonb"
      [] oid = 17 -> "bytea"
      [] OTHER -> "text"

\* strconv-style decimal digits of a positive integer, as characters.
RECURSIVE Itoa(_)
Itoa(n) ==
    IF n < 10 THEN <<Digits[n + 1]>> ELSE Itoa(n \div 10) \o <<Digits[(n % 10) + 1]>>

HasPrefixAt(s, i, old) ==
    i + Len(old) - 1 <= Len(s) /\ SubSeq(s, i, i + Len(old) - 1) = old

\* strings.ReplaceAll(s, old, new) for a non-empty old: left to right,
\* without overlap.
RECURSIVE ReplaceFrom(_, _, _, _)
ReplaceFrom(s, i, old, new) ==
    IF i > Len(s) THEN <<>>
    ELSE IF HasPrefixAt(s, i, old) THEN new \o ReplaceFrom(s, i + Len(old), old, new)
    ELSE <<s[i]>> \o ReplaceFrom(s, i + 1, old, new)

ReplaceAll(s, old, new) == ReplaceFrom(s, 1, old, new)

getDummyValueForParameter(paramIndex) == <<"N", "U", "L", "L">>

\* replaceParametersForExplain(sql, parameters): $n becomes NULL, from the
\* highest index down to $1.
RECURSIVE ReplaceDownFrom(_, _)
ReplaceDownFrom(sqlText, i) ==
    IF i < 1 THEN sqlText
    ELSE ReplaceDownFrom(
             ReplaceAll(sqlText, <<"$">> \o Itoa(i), getDummyValueForParameter(i)),
             i - 1)

RECURSIVE ReplaceUpFrom(_, _, _)
ReplaceUpFrom(sqlText, i, n) ==
    IF i > n THEN sqlText
    ELSE ReplaceUpFrom(
             ReplaceAll(sqlText, <<"$">> \o Itoa(i), getDummyValueForParameter(i)),
             i + 1, n)

\* replaceParametersForExplain with its loop running from $1 up to the
\* highest index.
replaceParametersForExplain_LowestFirst(sqlText, parameters) ==
    ReplaceUpFrom(sqlText, 1, IF parameters = NilSlice THEN 0 ELSE Len(parameters[1]))

replaceParametersForExplain(sqlText, parameters) ==
    ReplaceDownFrom(sqlText, IF parameters = NilSlice THEN 0 ELSE Len(parameters[1]))

\* Operations on the pool, as the database sees them.  tx: issued inside an
\* explicit transaction (one opened by Begin).
DbQuery(sqlText) == [op |-> "Query", sql |-> sqlText, tx |-> FALSE]

DbClose == [op |-> "Close", sql |-> <<>>, tx |-> FALSE]

DbBegin == [op |-> "Begin", sql |-> <<>>, tx |-> FALSE]

DbPrepare(sqlText) == [op |-> "Prepare", sql |-> sqlText, tx |-> TRUE]

DbRollback == [op |-> "Rollback", sql |-> <<>>, tx |-> TRUE]

Column(name, pgType, goType) ==
    [Name |-> name, Type |-> pgType, GoType |-> goType,
     IsNullable |-> TRUE, IsArray |-> FALSE]

\* The columns built from the first n field descriptions, and the first
\* error of MapType among them.
RECURSIVE ColumnsOf(_, _)
ColumnsOf(fields, n) ==
    IF n = 0 THEN [columns |-> <<>>, err |-> NoErr]
    ELSE LET before == ColumnsOf(fields, n - 1)
             pgType == mapOIDToTypeName(fields[n].DataTypeOID)
             m == MapType(NoMappings, pgType, TRUE, FALSE)
         IN  IF before.err # NoErr THEN before
             ELSE IF m.err # NoErr
             THEN [columns |-> before.columns, err |-> "failed to map column type"]
             ELSE [columns |-> Append(before.columns,
                                      Column(fields[n].Name, pgType, m.goType)),
                   err |-> NoErr]

\* analyzeQueryColumns(ctx, query): [Columns, err, log]
analyzeQueryColumns(q, db) ==
    LET limitedSQL == <<"SELECT * FROM (">> \o q.SQL \o <<") AS subquery LIMIT 0">>
        analyzableSQL == replaceParametersForExplain(limitedSQL, q.Parameters)
        cols == ColumnsOf(db.fields, Len(db.fields))
    IN  IF db.describeErr
        THEN [Columns |-> q.Columns, err |-> "failed to analyze query columns",
              log |-> <<DbQuery(analyzableSQL)>>]
        ELSE IF cols.err # NoErr
        THEN [Columns |-> q.Columns, err |-> cols.err,
              log |-> <<DbQuery(analyzableSQL), DbClose>>]
        ELSE [Columns |-> IF cols.columns = <<>> THEN NilSlice ELSE Slice(cols.columns),
              err |-> NoErr,
              log |-> <<DbQuery(analyzableSQL), DbClose>>]

\* analyzeSelectQuery(ctx, query): [Columns, err, log]
analyzeSelectQuery(q, db) ==
    LET analyzableSQL == replaceParametersForExplain(q.SQL, q.Parameters)
        explainSQL == <<"EXPLAIN (FORMAT JSON) ">> \o analyzableSQL
        r == analyzeQueryColumns(q, db)
    IN  IF db.explainErr
        THEN [Columns |-> q.Columns, err |-> "failed to execute EXPLAIN query",
              log |-> <<DbQuery(explainSQL)>>]
        ELSE [Columns |-> r.Columns, err |-> r.err,
              log |-> <<DbQuery(explainSQL)>> \o r.log \o <<DbClose>>]

\* The parameters with the types of the first n ParamOIDs, and the first
\* error of MapType among them (parameters before it stay updated).
RECURSIVE TypedParameters(_, _, _)
TypedParameters(parameters, paramOIDs, n) ==
    IF n = 0 THEN [parameters |-> parameters, err |-> NoErr]
    ELSE LET before == TypedParameters(parameters, paramOIDs, n - 1)
             pgType == mapOIDToTypeName(paramOIDs[n])
             m == MapType(NoMappings, pgType, FALSE, FALSE)
         IN  IF before.err # NoErr THEN before
             ELSE IF m.err # NoErr
             THEN [parameters |-> before.parameters,
                   err |-> "failed to map parameter type"]
             ELSE [parameters |->
                       [before.parameters EXCEPT ![n].Type = pgType,
                                                 ![n].GoType = m.goType],
                   err |-> NoErr]

LenOf(slice) == IF slice = NilSlice THEN 0 ELSE Len(slice[1])

\* validateExecQuery with the rollback written on the failure of Prepare
\* only, not deferred.
validateExecQuery_RollbackOnPrepareFailure(q, db) ==
    LET typed == TypedParameters(q.Parameters[1], db.paramOIDs, Len(db.paramOIDs))
    IN  IF db.beginErr
        THEN [Parameters |-> q.Parameters,
              err |-> "failed to begin transaction for validation",
              log |-> <<DbBegin>>]
        ELSE IF db.prepareErr
        THEN [Parameters |-> q.Parameters, err |-> "query preparation failed",
              log |-> <<DbBegin, DbPrepare(q.SQL), DbRollback>>]
        ELSE IF Len(db.paramOIDs) # LenOf(q.Parameters)
        THEN [Parameters |-> q.Parameters, err |-> "parameter count mismatch",
              log |-> <<DbBegin, DbPrepare(q.SQL)>>]
        ELSE [Parameters |-> Slice(typed.parameters), err |-> typed.err,
              log |-> <<DbBegin, DbPrepare(q.SQL)>>]

\* validateExecQuery(ctx, query): [Parameters, err, log].  The deferred
\* tx.Rollback runs on every return after a successful Begin.
validateExecQuery(q, db) ==
    LET typed == TypedParameters(q.Parameters[1], db.paramOIDs, Len(db.paramOIDs))
    IN  IF db.beginErr
        THEN [Parameters |-> q.Parameters,
              err |-> "failed to begin transaction for validation",
              log |-> <<DbBegin>>]
        ELSE IF db.prepareErr
        THEN [Parameters |-> q.Parameters, err |-> "query preparation failed",
              log |-> <<DbBegin, DbPrepare(q.SQL), DbRollback>>]
        ELSE IF Len(db.paramOIDs) # LenOf(q.Parameters)
        THEN [Parameters |-> q.Parameters, err |-> "parameter count mismatch",
              log |-> <<DbBegin, DbPrepare(q.SQL), DbRollback>>]
        ELSE [Parameters |-> Slice(typed.parameters), err |-> typed.err,
              log |-> <<DbBegin, DbPrepare(q.SQL), DbRollback>>]

\* validateQuerySyntax(ctx, query)
validateQuerySyntax(q, db) ==
    IF q.Type = QueryTypeExec THEN validateExecQuery(q, db)
    ELSE [Parameters |-> q.Parameters, err |-> NoErr, log |-> <<>>]

\* AnalyzeQuery, after validateQuerySyntax has returned v.
AnalyzeQuery_Validated(q2, s, v) ==
    [query |-> [q2 EXCEPT !.Parameters = v.Parameters],
     err |-> IF v.err # NoErr THEN "query syntax validation failed" ELSE NoErr,
     log |-> s.log \o v.log]

\* AnalyzeQuery, after the columns have been analysed (s): the syntax is
\* validated next.
AnalyzeQuery_Analyzed(q2, s, db) ==
    IF s.err # NoErr
    THEN [query |-> q2, err |-> "failed to analyze SELECT query", log |-> s.log]
    ELSE AnalyzeQuery_Validated(q2, s, validateQuerySyntax(q2, db))

\* AnalyzeQuery that looks at the error of extractParameters only after the
\* database has analysed and validated the query.
AnalyzeQuery_Extracted_DatabaseFirst(q1, e, db) ==
    IF e.err # NoErr
    THEN [query |-> q1, err |-> "failed to extract parameters",
          log |-> IF isSelectQuery(q1.Type) THEN analyzeSelectQuery(q1, db).log
                  ELSE <<DbBegin, DbPrepare(q1.SQL), DbRollback>>]
    ELSE IF isSelectQuery(q1.Type)
    THEN AnalyzeQuery_Analyzed([q1 EXCEPT !.Columns = analyzeSelectQuery(q1, db).Columns],
                               analyzeSelectQuery(q1, db), db)
    ELSE AnalyzeQuery_Analyzed(q1, [Columns |-> q1.Columns, err |-> NoErr, log |-> <<>>],
                               db)

\* AnalyzeQuery, after the parameters have been extracted (e) and stored:
\* a result-producing query has its columns analysed.
AnalyzeQuery_Extracted(q1, e, db) ==
    IF e.err # NoErr
    THEN [query |-> q1, err |-> "failed to extract parameters", log |-> <<>>]
    ELSE IF isSelectQuery(q1.Type)
    THEN AnalyzeQuery_Analyzed([q1 EXCEPT !.Columns = analyzeSelectQuery(q1, db).Columns],
                               analyzeSelectQuery(q1, db), db)
    ELSE AnalyzeQuery_Analyzed(q1, [Columns |-> q1.Columns, err |-> NoErr, log |-> <<>>],
                               db)

\* AnalyzeQuery: query.Parameters = parameters
AnalyzeQuery_Parameters(q, e, db) ==
    AnalyzeQuery_Extracted([q EXCEPT !.Parameters = e.Parameters], e, db)

\* AnalyzeQuery(ctx, query) for a non-nil query: the query as it is left,
\* the error returned and the operations issued against the database.
AnalyzeQuery(q, db) ==
    AnalyzeQuery_Parameters(q, extractParameters(q.SQL, q.Parameters), db)


-----------------------------------------------------------------------------
(* gen/config.go: Validate *)

\* Config.Validate() without the check that a generation mode is enabled.
Validate_NoModeCheck(c, env, dirExists) ==
    LET c1 == IF c.DSN = "" /\ env.TEST_DATABASE_URL # ""
              THEN [c EXCEPT !.DSN = env.TEST_DATABASE_URL] ELSE c
    IN  IF c1.DSN = ""
        THEN [cfg |-> c1, dir |-> dirExists,
              err |-> "database connection string (DSN) is required"]
        ELSE IF c1.QueriesDir # "" /\ ~env.queriesDirExists
        THEN [cfg |-> c1, dir |-> dirExists,
              err |-> "queries directory does not exist"]
        ELSE IF ~dirExists /\ env.mkdirFails
        THEN [cfg |-> c1, dir |-> dirExists,
              err |-> "failed to create output directory"]
        ELSE [cfg |-> c1, dir |-> TRUE, err |-> NoErr]

\* Config.Validate() with the output directory created before the checks.
Validate_MkdirFirst(c, env, dirExists) ==
    LET c1 == IF c.DSN = "" /\ env.TEST_DATABASE_URL # ""
              THEN [c EXCEPT !.DSN = env.TEST_DATABASE_URL] ELSE c
        dir == dirExists \/ ~env.mkdirFails
    IN  IF ~dirExists /\ env.mkdirFails
        THEN [cfg |-> c1, dir |-> dirExists,
              err |-> "failed to create output directory"]
        ELSE IF c1.DSN = ""
        THEN [cfg |-> c1, dir |-> dir,
              err |-> "database connection string (DSN) is required"]
        ELSE IF ~c1.Tables /\ c1.QueriesDir = ""
        THEN [cfg |-> c1, dir |-> dir,
              err |-> "must enable either table generation or query generation"]
        ELSE IF c1.QueriesDir # "" /\ ~env.queriesDirExists
        THEN [cfg |-> c1, dir |-> dir,
              err |-> "queries directory does not exist"]
        ELSE [cfg |-> c1, dir |-> TRUE, err |-> NoErr]

\* Config.Validate() under an environment: the configuration as it is left
\* (the DSN may be taken from TEST_DATABASE_URL), the error, and whether the
\* output directory exists afterwards.
Validate(c, env, dirExists) ==
    LET c1 == IF c.DSN = "" /\ env.TEST_DATABASE_URL # ""
              THEN [c EXCEPT !.DSN = env.TEST_DATABASE_URL] ELSE c
    IN  IF c1.DSN = ""
        THEN [cfg |-> c1, dir |-> dirExists,
              err |-> "database connection string (DSN) is required"]
        ELSE IF ~c1.Tables /\ c1.QueriesDir = ""
        THEN [cfg |-> c1, dir |-> dirExists,
              err |-> "must enable either table generation or query generation"]
        ELSE IF c1.QueriesDir # "" /\ ~env.queriesDirExists
        THEN [cfg |-> c1, dir |-> dirExists,
              err |-> "queries directory does not exist"]
        ELSE IF ~dirExists /\ env.mkdirFails
        THEN [cfg |-> c1, dir |-> dirExists,
              err |-> "failed to create output directory"]
        ELSE [cfg |-> c1, dir |-> TRUE, err |-> NoErr]

\* LoadConfig(path), after the file has been read and parsed: the Config
\* built from the file's values, with the defaults of empty values.
LoadConfig(fileConfig) ==
    [DSN |-> fileConfig.DSN,
     Schema |-> IF fileConfig.Schema = "" THEN "public" ELSE fileConfig.Schema,
     OutputDir |-> IF fileConfig.OutputDir = "" THEN "./repositories"
                   ELSE fileConfig.OutputDir,
     PackageName |-> IF fileConfig.PackageName = "" THEN "repositories"
                     ELSE fileConfig.PackageName,
     Tables |-> fileConfig.Tables,
     QueriesDir |-> fileConfig.QueriesDir,
     Include |-> fileConfig.Include,
     Exclude |-> fileConfig.Exclude,
     Verbose |-> FALSE]

\* c.Merge(fileConfig): the file's configuration, overridden by every value
\* of c that is not the zero value of its type.
Merge(c, fileConfig) ==
    [DSN |-> IF c.DSN # "" THEN c.DSN ELSE fileConfig.DSN,
     Schema |-> IF c.Schema # "" THEN c.Schema ELSE fileConfig.Schema,
     OutputDir |-> IF c.OutputDir # "" THEN c.OutputDir ELSE fileConfig.OutputDir,
     PackageName |-> IF c.PackageName # "" THEN c.PackageName
                     ELSE fileConfig.PackageName,
     QueriesDir |-> IF c.QueriesDir # "" THEN c.QueriesDir ELSE fileConfig.QueriesDir,
     Tables |-> IF c.Tables THEN c.Tables ELSE fileConfig.Tables,
     Include |-> IF Len(c.Include) > 0 THEN c.Include ELSE fileConfig.Include,
     Exclude |-> IF Len(c.Exclude) > 0 THEN c.Exclude ELSE fileConfig.Exclude,
     Verbose |-> IF c.Verbose THEN c.Verbose ELSE fileConfig.Verbose]

\* ShouldIncludeTable: filepath.Match of a table name against a pattern of
\* literal characters, "?" (any one character) and "*" (any run of
\* characters; a table name holds no path separator).
RECURSIVE Match(_, _)
Match(pattern, name) ==
    IF pattern = <<>> THEN name = <<>>
    ELSE IF Head(pattern) = "*"
    THEN \E k \in 0..Len(name) :
             Match(Tail(pattern), SubSeq(name, k + 1, Len(name)))
    ELSE name # <<>> /\ Head(pattern) \in {"?", Head(name)}
         /\ Match(Tail(pattern), Tail(name))

\* ShouldIncludeTable with the include patterns looked at before the
\* exclude patterns.
ShouldIncludeTable_IncludeFirst(c, tableName) ==
    IF \E i \in 1..Len(c.Include) : Match(c.Include[i], tableName) THEN TRUE
    ELSE IF \E i \in 1..Len(c.Exclude) : Match(c.Exclude[i], tableName) THEN FALSE
    ELSE Len(c.Include) = 0

\* Config.ShouldIncludeTable(tableName)
ShouldIncludeTable(c, tableName) ==
    IF \E i \in 1..Len(c.Exclude) : Match(c.Exclude[i], tableName) THEN FALSE
    ELSE IF Len(c.Include) = 0 THEN TRUE
    ELSE \E i \in 1..Len(c.Include) : Match(c.Include[i], tableName)

-----------------------------------------------------------------------------
(* cmd/dbutil-gen/main.go *)

\* The value flag.Parse leaves in a flag: the one given on the command line
\* (a flag that was not given is NilPtr), or the flag's default.
FlagValue(given, default) == IF given = NilPtr THEN default ELSE given[1]

\* The Config main builds from the parsed flags (the --include and
\* --exclude values as their comma-separated items).
FlagConfig(flags, dsn) ==
    [DSN |-> dsn,
     Schema |-> FlagValue(flags.schema, "public"),
     OutputDir |-> FlagValue(flags.output, "./repositories"),
     PackageName |-> FlagValue(flags.package, "repositories"),
     QueriesDir |-> FlagValue(flags.queries, ""),
     Tables |-> FlagValue(flags.tables, FALSE),
     Include |-> FlagValue(flags.include, <<>>),
     Exclude |-> FlagValue(flags.exclude, <<>>),
     Verbose |-> FlagValue(flags.verbose, FALSE)]

\* main up to the call of Generate: the exit taken, and the configuration
\* handed to the generator.  file: NilPtr without --config, else the parsed
\* configuration file.
main(flags, env, file) ==
    LET dsn == IF FlagValue(flags.dsn, "") = "" THEN env.DATABASE_URL
               ELSE FlagValue(flags.dsn, "")
    IN  IF dsn = ""
        THEN [exit |-> "Database connection string required", cfg |-> NilPtr]
        ELSE IF ~FlagValue(flags.tables, FALSE) /\ FlagValue(flags.queries, "") = ""
        THEN [exit |-> "Must specify --tables and/or --queries", cfg |-> NilPtr]
        ELSE IF file # NilPtr
        THEN [exit |-> "Generate",
              cfg |-> Ptr(Merge(FlagConfig(flags, dsn), LoadConfig(file[1])))]
        ELSE [exit |-> "Generate", cfg |-> Ptr(FlagConfig(flags, dsn))]

-----------------------------------------------------------------------------
(* gen/codegen.go, gen/generator.go: emission of the generated files *)

\* A file name is the sequence of its parts: <<"users", "_generated", ".go">>.
PaginationFileName == <<"pagination", ".go">>

\* Table.GoFileName() without the _generated part.
TableFileName_NoGeneratedPart(tableName) == <<tableName, ".go">>

\* Table.GoFileName()
TableFileName(tableName) == <<tableName, "_generated", ".go">>

\* Query.GoFileName()
QueryFileName(stem) == <<stem, "_queries", "_generated", ".go">>

\* The files the generator owns: *_generated.go and pagination.go.
Owned(name) ==
    \/ name = PaginationFileName
    \/ Len(name) >= 2 /\ name[Len(name)] = ".go" /\ name[Len(name) - 1] = "_generated"

\* The files of a directory: a function from names to contents.
WriteFile(files, name, content) ==
    [n \in (DOMAIN files) \cup {name} |-> IF n = name THEN content ELSE files[n]]

\* An artifact handed to emission: the file it goes to, what it was made
\* from, and whether its rendering is source text the formatter accepts.
Artifact(name, source, valid) == [name |-> name, source |-> source, valid |-> valid]

\* The rendered, formatted content of an artifact: the generation header
\* naming its source, then the code.
Formatted(a) == <<"// Code generated by dbutil-gen. DO NOT EDIT.", a.source>>

FormatError == "failed to format generated code"

WriteError == "failed to write file"

\* writeCodeToFile with the file written before the formatter has accepted
\* the code.
writeCodeToFile_WriteThenFormat(files, a, fault) ==
    IF ~a.valid
    THEN [files |-> WriteFile(files, a.name, <<"unformatted", a.source>>),
          err |-> FormatError, ops |-> <<[op |-> "write", name |-> a.name]>>]
    ELSE IF fault = "open"
    THEN [files |-> files, err |-> WriteError, ops |-> <<>>]
    ELSE IF fault = "write"
    THEN [files |-> WriteFile(files, a.name, <<"partial", a.source>>),
          err |-> WriteError, ops |-> <<[op |-> "write", name |-> a.name]>>]
    ELSE [files |-> WriteFile(files, a.name, Formatted(a)), err |-> NoErr,
          ops |-> <<[op |-> "write", name |-> a.name]>>]

\* writeCodeToFile(filename, code): format the rendered code, then write the
\* file in one pass.  fault: "none", or the disk failing when the file is
\* opened ("open") or while it is written ("write").
writeCodeToFile(files, a, fault) ==
    IF ~a.valid
    THEN [files |-> files, err |-> FormatError, ops |-> <<>>]
    ELSE IF fault = "open"
    THEN [files |-> files, err |-> WriteError, ops |-> <<>>]
    ELSE IF fault = "write"
    THEN [files |-> WriteFile(files, a.name, <<"partial", a.source>>),
          err |-> WriteError, ops |-> <<[op |-> "write", name |-> a.name]>>]
    ELSE [files |-> WriteFile(files, a.name, Formatted(a)), err |-> NoErr,
          ops |-> <<[op |-> "write", name |-> a.name]>>]

\* The artifacts of a run, in emission order: the shared pagination module,
\* then one module per table, then one per query file.  tables and
\* queryFiles are sequences in alphabetical order.
\* invalid: the files whose rendering the formatter will reject.
TableArtifacts(tables, invalid) ==
    <<Artifact(PaginationFileName, <<"pagination">>, PaginationFileName \notin invalid)>>
    \o [i \in 1..Len(tables) |->
            Artifact(TableFileName(tables[i]), <<"table", tables[i]>>,
                     TableFileName(tables[i]) \notin invalid)]

QueryArtifacts(queryFiles, invalid) ==
    [i \in 1..Len(queryFiles) |->
        Artifact(QueryFileName(queryFiles[i]), <<"queries", queryFiles[i]>>,
                 QueryFileName(queryFiles[i]) \notin invalid)]

-----------------------------------------------------------------------------
(* gen/query_parser.go: ValidateQuery *)

LowerLetters ==
    <<"a", "b", "c", "d", "e", "f", "g", "h", "i", "j", "k", "l", "m",
      "n", "o", "p", "q", "r", "s", "t", "u", "v", "w", "x", "y", "z">>

UpperLetters ==
    <<"A", "B", "C", "D", "E", "F", "G", "H", "I", "J", "K", "L", "M",
      "N", "O", "P", "Q", "R", "S", "T", "U", "V", "W", "X", "Y", "Z">>

IsLetter(c) == c \in Range(LowerLetters) \cup Range(UpperLetters)

\* strings.ToUpper and strings.ToLower, character by character.
ToUpper(s) ==
    [i \in 1..Len(s) |->
        IF s[i] \in Range(LowerLetters)
        THEN UpperLetters[CHOOSE k \in 1..26 : LowerLetters[k] = s[i]] ELSE s[i]]

ToLower(s) ==
    [i \in 1..Len(s) |->
        IF s[i] \in Range(UpperLetters)
        THEN LowerLetters[CHOOSE k \in 1..26 : UpperLetters[k] = s[i]] ELSE s[i]]

IsSpace(c) == c \in {" ", "\t", "\n", "\r"}

\* strings.TrimSpace
RECURSIVE TrimLeft(_)
TrimLeft(s) == IF s # <<>> /\ IsSpace(Head(s)) THEN TrimLeft(Tail(s)) ELSE s

RECURSIVE TrimRight(_)
TrimRight(s) ==
    IF s # <<>> /\ IsSpace(s[Len(s)]) THEN TrimRight(SubSeq(s, 1, Len(s) - 1)) ELSE s

TrimSpace(s) == TrimRight(TrimLeft(s))

HasPrefix(s, prefix) == HasPrefixAt(s, 1, prefix)

\* isValidGoIdentifier(name): a letter or underscore, then letters, digits
\* and underscores.
isValidGoIdentifier(name) ==
    /\ name # <<>>
    /\ IsLetter(name[1]) \/ name[1] = "_"
    /\ \A i \in 2..Len(name) : IsLetter(name[i]) \/ IsDigit(name[i]) \/ name[i] = "_"

KwSelect == <<"S", "E", "L", "E", "C", "T">>

KwWith == <<"W", "I", "T", "H">>

KwInsert == <<"I", "N", "S", "E", "R", "T">>

KwUpdate == <<"U", "P", "D", "A", "T", "E">>

KwDelete == <<"D", "E", "L", "E", "T", "E">>

BeginsWithAny(body, keywords) == \E k \in keywords : HasPrefix(body, k)

ShapeError == "query type does not match the SQL statement"

\* ValidateQuery comparing the body with the keywords as it is written.
ValidateQuery_CaseSensitive(q) ==
    LET body == TrimSpace(q.SQL)
    IN  IF q.Name = <<>> THEN "query name cannot be empty"
        ELSE IF body = <<>> THEN "query SQL cannot be empty"
        ELSE IF q.Type \notin QueryTypes THEN "invalid query type"
        ELSE IF ~isValidGoIdentifier(q.Name) THEN "query name is not a valid Go identifier"
        ELSE IF BeginsWithAny(body, {KwSelect, KwWith}) /\ q.Type = QueryTypeExec
        THEN ShapeError
        ELSE IF BeginsWithAny(body, {KwInsert, KwUpdate, KwDelete})
                /\ q.Type # QueryTypeExec
        THEN ShapeError
        ELSE NoErr

\* ValidateQuery(query): the error, NoErr when the query is valid.
ValidateQuery(q) ==
    LET body == ToUpper(TrimSpace(q.SQL))
    IN  IF q.Name = <<>> THEN "query name cannot be empty"
        ELSE IF body = <<>> THEN "query SQL cannot be empty"
        ELSE IF q.Type \notin QueryTypes THEN "invalid query type"
        ELSE IF ~isValidGoIdentifier(q.Name) THEN "query name is not a valid Go identifier"
        ELSE IF BeginsWithAny(body, {KwSelect, KwWith}) /\ q.Type = QueryTypeExec
        THEN ShapeError
        ELSE IF BeginsWithAny(body, {KwInsert, KwUpdate, KwDelete})
                /\ q.Type # QueryTypeExec
        THEN ShapeError
        ELSE NoErr

-----------------------------------------------------------------------------
(* gen/types.go, gen/types_mapping.go: the primary key of a table *)

TypeUUID == <<"u", "u", "i", "d">>

\* Column.IsUUID()
IsUUID(col) == ToLower(col.Type) = TypeUUID

\* Table.GetPrimaryKeyColumn() returning the first column of a composite key.
GetPrimaryKeyColumn_FirstOfComposite(t) ==
    LET at == {i \in 1..Len(t.Columns) :
                   t.PrimaryKey # <<>> /\ t.Columns[i].Name = t.PrimaryKey[1]}
    IN  IF at = {} THEN NilPtr
        ELSE Ptr(t.Columns[CHOOSE i \in at : \A j \in at : i <= j])

\* Table.GetPrimaryKeyColumn(): the column of a single-column primary key,
\* nil for a composite or missing key.
GetPrimaryKeyColumn(t) ==
    LET at == {i \in 1..Len(t.Columns) :
                   Len(t.PrimaryKey) = 1 /\ t.Columns[i].Name = t.PrimaryKey[1]}
    IN  IF at = {} THEN NilPtr
        ELSE Ptr(t.Columns[CHOOSE i \in at : \A j \in at : i <= j])

\* ValidateUUIDPrimaryKey(column)
ValidateUUIDPrimaryKey(col) ==
    IF col = NilPtr THEN "primary key column is nil"
    ELSE IF ~IsUUID(col[1]) THEN "primary key must be UUID type"
    ELSE IF col[1].IsNullable THEN "primary key cannot be nullable"
    ELSE IF col[1].IsArray THEN "primary key cannot be an array"
    ELSE NoErr

\* The decision to emit a table: its single primary-key column validates.
AcceptTable(t) == ValidateUUIDPrimaryKey(GetPrimaryKeyColumn(t))

-----------------------------------------------------------------------------
(* Bounds and the inputs drawn from them *)

MaxRows == 3

MaxCalls == 5

MaxSmallLimit == 3

MaxTrim == 2

MaxSqlLen == 5

MaxFields == 2

MaxParamOIDs == 2

MaxExplainParams == 10

MaxPatterns == 2

\* A UUID that is zero but for its first, eighth, twelfth and last byte:
\* the first, second and third byte of a base64 quantum, and the byte that
\* is left over after five quanta.
MkUUID(a, b, c, d) ==
    [i \in 1..UUIDLen |->
        IF i = 1 THEN a ELSE IF i = 8 THEN b ELSE IF i = 12 THEN c
        ELSE IF i = UUIDLen THEN d ELSE 0]

ByteVals == {0, 1, 63, 128, 255}

UUIDs == {MkUUID(a, b, c, d) : a, b, c, d \in ByteVals}

\* uuid.UUID values compare byte by byte.
UUIDLess(a, b) ==
    \E i \in 1..UUIDLen : a[i] < b[i] /\ \A j \in 1..(i - 1) : a[j] = b[j]

\* The ids a backing row may have, ascending; the nil UUID is the least.
IdUniverse ==
    <<NilUUID, MkUUID(1, 0, 0, 1), MkUUID(1, 0, 0, 255), MkUUID(1, 128, 7, 0),
      MkUUID(2, 63, 255, 62)>>

RECURSIVE RowsOf(_)
RowsOf(idx) ==
    IF idx = {} THEN <<>>
    ELSE LET m == CHOOSE x \in idx : \A y \in idx : x <= y
         IN  <<[ID |-> IdUniverse[m]]>> \o RowsOf(idx \ {m})

\* The backing rows: at most MaxRows rows with distinct ids, ordered by id.
Tables ==
    {RowsOf(idx) : idx \in {S \in SUBSET (1..Len(IdUniverse)) : Cardinality(S) <= MaxRows}}

Limits == {-1, 0} \cup (1..MaxSmallLimit) \cup {20, 21, 100, 101, 150}

\* "invalid-cursor", "invalid-base64!" and "dGVzdA" of the tests.
BadCursors ==
    { <<"i","n","v","a","l","i","d","-","c","u","r","s","o","r">>,
      <<"i","n","v","a","l","i","d","-","b","a","s","e","6","4","!">>,
      <<"d","G","V","z","d","A">> }

CursorSuffixes == { <<"A">>, <<"A","A">>, <<"!">>, <<"=">>, <<"\n">> }

\* Strings handed to DecodeCursor: cursors of UUIDs, whole, cut short by up
\* to MaxTrim characters or followed by further characters; the empty
\* string; the strings of the tests.
CursorInputs ==
    {<<>>} \cup BadCursors
    \cup {SubSeq(EncodeToString(u), 1, Len(EncodeToString(u)) - k) :
              u \in UUIDs, k \in 0..MaxTrim}
    \cup {EncodeToString(u) \o x : u \in UUIDs, x \in CursorSuffixes}

\* params.Cursor of a Paginate call: nil, "", the cursor of an id, a string
\* that is no cursor.
CallCursors ==
    {NilPtr, Ptr(<<>>)}
    \cup {Ptr(EncodeToString(IdUniverse[i])) : i \in 1..Len(IdUniverse)}
    \cup {Ptr(b) : b \in BadCursors}

SqlAlphabet == {"$", "1", "2", "3", "x"}

RECURSIVE SeqsUpTo(_, _)
SeqsUpTo(S, n) ==
    IF n = 0 THEN {<<>>}
    ELSE LET shorter == SeqsUpTo(S, n - 1)
         IN  shorter \cup {Append(t, c) : t \in shorter, c \in S}

SqlTexts == SeqsUpTo(SqlAlphabet, MaxSqlLen)

\* Query texts with string literals ('...') and line comments (-- ... \n).
LiteralAlphabet == {"$", "1", "2", "'", "-", "\n"}

LiteralSqlTexts == SeqsUpTo(LiteralAlphabet, MaxSqlLen)

\* Query texts given to AnalyzeQuery ("x" stands for SQL text without a
\* placeholder; the parser passes no empty body on): none, one and two
\* placeholders, in and out of order, with a gap, and adjacent.
AnalyzeSqlTexts ==
    { <<"x">>, <<"x", "$", "1">>, <<"$", "1", "x", "$", "2">>,
      <<"$", "2", "x", "$", "1">>, <<"$", "2">>, <<"$", "1", "$", "2">> }

\* Type OIDs the database reports: uuid, integer, and one outside the table.
OidSamples == {2950, 23, 99999}

OidSeqs(n) == UNION {[1..k -> OidSamples] : k \in 0..n}

FieldDescriptions(oids) ==
    [i \in 1..Len(oids) |-> [Name |-> <<"col", i>>, DataTypeOID |-> oids[i]]]

\* How the database answers the analyzer: which calls fail, the field
\* descriptions of the LIMIT 0 query, the ParamOIDs of the prepared statement.
DbScripts(queryType) ==
    IF isSelectQuery(queryType)
    THEN [explainErr : BOOLEAN, describeErr : BOOLEAN,
          fields : {FieldDescriptions(o) : o \in OidSeqs(MaxFields)},
          beginErr : {FALSE}, prepareErr : {FALSE}, paramOIDs : {<<>>}]
    ELSE [explainErr : {FALSE}, describeErr : {FALSE}, fields : {<<>>},
          beginErr : BOOLEAN, prepareErr : BOOLEAN,
          paramOIDs : OidSeqs(MaxParamOIDs)]

\* Configurations and environments of a run.
Configs == [DSN : {"", "postgres://db"}, Tables : BOOLEAN, QueriesDir : {"", "queries"}]

Environments ==
    [TEST_DATABASE_URL : {"", "postgres://test"}, queriesDirExists : BOOLEAN,
     mkdirFails : BOOLEAN]

\* Files that may lie in the output directory before a run: a hand-written
\* file, two files of an earlier run, and a backup of a generated file.
InitialNames ==
    { <<"users", ".go">>, TableFileName("users"), PaginationFileName,
      <<"users", "_generated", ".go", ".bak">> }

InitialFiles ==
    {[n \in names |-> IF Owned(n) THEN <<"stale">> ELSE <<"user">>] :
         names \in SUBSET InitialNames}

\* The tables of the schema and the query files, in alphabetical order.
TableLists == {<<>>, <<"posts">>, <<"users">>, <<"posts", "users">>}

QueryFileLists == {<<>>, <<"users">>}

\* At most one artifact of a run fails to format.
InvalidChoices(artifacts) ==
    {{}} \cup {{artifacts[i].name} : i \in 1..Len(artifacts)}

DiskFaults == {"none", "open", "write"}

\* Parsed queries given to ValidateQuery: each keyword in upper, lower and
\* (for SELECT) mixed case, behind no, one or two white-space characters.
KeywordSpellings ==
    {KwSelect, KwWith, KwInsert, KwUpdate, KwDelete}
    \cup {ToLower(k) : k \in {KwSelect, KwWith, KwInsert, KwUpdate, KwDelete}}
    \cup {<<"S", "e", "l", "e", "c", "t">>, <<"V", "A", "L", "U", "E", "S">>, <<>>}

QueryBodies ==
    {lead \o kw \o rest :
        lead \in {<<>>, <<" ">>, <<"\n", "\t">>},
        kw \in KeywordSpellings,
        rest \in {<<>>, <<" ", "x">>}}

QueryNames == {<<"G", "e", "t">>, <<>>, <<"1", "G">>, <<"_", "g", "1">>}

ParsedQueries ==
    [Name : QueryNames, Type : QueryTypes \cup {"", "batch"}, SQL : QueryBodies]

\* Type mappers and the database types given to MapType.
CustomMappingSets ==
    { NoMappings,
      [t \in {"custom_type"} |-> "MyCustomType"],
      [t \in {"custom_type", "uuid"} |->
          IF t = "uuid" THEN "MyUUID" ELSE "MyCustomType"] }

PgTypeSamples == {"uuid", "text", "jsonb", "bytea", "custom_type", "pg_lsn"}

\* Tables given to the primary-key validation: an id column of each type,
\* nullability and array flag, beside a second uuid column, under a single,
\* composite, missing or dangling primary key.
PkColumn(name, type, nullable, array) ==
    [Name |-> name, Type |-> type, IsNullable |-> nullable, IsArray |-> array]

PkTypeSamples ==
    { TypeUUID, ToUpper(TypeUUID), <<"i", "n", "t", "e", "g", "e", "r">>,
      <<"t", "e", "x", "t">> }

PkTables ==
    {[Name |-> "t",
      Columns |-> <<PkColumn("id", ty, n, a), PkColumn("tenant_id", TypeUUID, FALSE, FALSE)>>,
      PrimaryKey |-> pk] :
        ty \in PkTypeSamples, n \in BOOLEAN, a \in BOOLEAN,
        pk \in {<<>>, <<"id">>, <<"tenant_id", "id">>, <<"id", "tenant_id">>, <<"gone">>}}

\* Query texts given to replaceParametersForExplain, as lists of tokens: the
\* placeholders $1..$n, each once, in ascending order rotated by r, with a
\* separator (none, a blank, a comma, an identifier character) after each.
PlaceholderToken(k) == <<"$">> \o Itoa(k)

Separators == {<<>>, <<" ">>, <<",">>, <<"x">>}

PlaceholderTokens(n, r, sep) ==
    Concat([i \in 1..n |-> <<PlaceholderToken(((i + r - 1) % n) + 1), sep>>])

ExplainTokenLists ==
    {[tokens |-> PlaceholderTokens(n, r, sep), n |-> n] :
        n \in 1..MaxExplainParams, r \in 0..(MaxExplainParams - 1),
        sep \in Separators}

\* The same with a quoted string literal that holds a placeholder's text
\* in front of the placeholders or behind them.
StringLiterals ==
    {<<"'", "$", "1", "'">>, <<"'", "$", "2", "'">>, <<"'", "a", "$", "1", "b", "'">>}

ExplainLiteralTokenLists ==
    {[tokens |-> IF front THEN <<lit, <<" ">>>> \o PlaceholderTokens(n, r, sep)
                 ELSE PlaceholderTokens(n, r, sep) \o <<<<" ">>, lit>>,
      n |-> n] :
        n \in 1..2, r \in 0..1, sep \in Separators, lit \in StringLiterals,
        front \in BOOLEAN}

\* query.Parameters of a query whose placeholders are $1..$n.
DenseParameters(n) == Slice([i \in 1..n |-> Parameter(i)])

\* Table names and glob patterns of the include and exclude lists.
TableNames == {<<"a">>, <<"a", "b">>, <<"b", "b">>, <<"b", "a", "b">>}

Patterns == {<<"*">>, <<"a", "*">>, <<"a", "b">>, <<"?", "b">>}

PatternLists == UNION {[1..n -> Patterns] : n \in 0..MaxPatterns}

\* Command lines: every flag given or not given.
CommandLines ==
    [dsn : {NilPtr, Ptr("postgres://cli")},
     schema : {NilPtr, Ptr("app")},
     output : {NilPtr, Ptr("out")},
     package : {NilPtr, Ptr("db")},
     queries : {NilPtr, Ptr("queries")},
     tables : {NilPtr, Ptr(TRUE), Ptr(FALSE)},
     include : {NilPtr, Ptr(<<"users">>)},
     exclude : {NilPtr, Ptr(<<"logs">>)},
     verbose : {NilPtr, Ptr(TRUE)}]

\* Parsed configuration files.
FileConfigs ==
    [DSN : {"", "postgres://file"}, Schema : {"", "tenant"},
     OutputDir : {"", "gen"}, PackageName : {"", "store"},
     Tables : BOOLEAN, QueriesDir : {"", "sql"},
     Include : {<<>>, <<"orders">>}, Exclude : {<<>>}]

MainEnvironments == [DATABASE_URL : {"", "postgres://env"}]

-----------------------------------------------------------------------------
(* States and actions.  The helpers and Paginate keep no state between
   calls, so a behaviour makes one call (a walk: one sequence of calls) from
   the idle state; every call the program can make starts some behaviour. *)

CursorIdle == c_op = "none" /\ c_in = <<>> /\ c_out = <<>>

PageIdle ==
    /\ p_op = "none"
    /\ params = PaginationParams(NilPtr, 0)
    /\ qlog = <<>>
    /\ result = NilPtr
    /\ err = NoErr
    /\ pages = <<>>

AnalyzerIdle ==
    /\ x_done = FALSE
    /\ x_params = NilSlice
    /\ x_err = NoErr
    /\ x_columns = NilSlice
    /\ x_log = <<>>
    /\ x_analyzed = FALSE

\* An analyzer built without a pool, NewQueryAnalyzer(nil), as the unit tests
\* of extractParameters build it.
NoDatabase == x_type = "many" /\ x_db = NilPtr

\* EncodeCursor(id)
EncodeCursorCall ==
    \E u \in UUIDs :
        /\ c_op = "none"
        /\ c_op' = "encode"
        /\ c_in' = u
        /\ c_out' = EncodeCursor(u)
        /\ UNCHANGED <<pageVars, analyzerVars, runVars, unitVars>>

\* DecodeCursor(cursor) of a string from anywhere
DecodeCursorCall ==
    \E s \in CursorInputs :
        /\ c_op = "none"
        /\ c_op' = "decode"
        /\ c_in' = s
        /\ c_out' = DecodeCursor(s)
        /\ UNCHANGED <<pageVars, analyzerVars, runVars, unitVars>>

\* DecodeCursor of the cursor EncodeCursor has just returned; c_in stays
\* the UUID that was encoded.
DecodeEncodedCall ==
    /\ c_op = "encode"
    /\ c_op' = "roundtrip"
    /\ c_in' = c_in
    /\ c_out' = DecodeCursor(c_out)
    /\ UNCHANGED <<pageVars, analyzerVars, runVars, unitVars>>

\* ValidatePaginationParams(params)
ValidateCall ==
    \E cursor \in CallCursors, limit \in Limits :
        /\ c_op = "none"
        /\ c_op' = "validate"
        /\ c_in' = PaginationParams(cursor, limit)
        /\ c_out' = ValidatePaginationParams(PaginationParams(cursor, limit))
        /\ UNCHANGED <<pageVars, analyzerVars, runVars, unitVars>>

\* One Paginate call with any parameters; the query may fail.
PaginateCall ==
    \E cursor \in CallCursors, limit \in Limits, qfail \in BOOLEAN :
        LET r == Paginate(PaginationParams(cursor, limit), table, qfail)
        IN  /\ p_op = "none"
            /\ p_op' = "call"
            /\ params' = PaginationParams(cursor, limit)
            /\ qlog' = r.queries
            /\ result' = r.result
            /\ err' = r.err
            /\ pages' = <<>>
            /\ UNCHANGED <<table, cursorVars, analyzerVars, runVars, unitVars>>

\* The first call of a walk over the rows: no cursor, a limit that stays.
WalkStart ==
    \E limit \in Limits :
        LET r == Paginate(PaginationParams(NilPtr, limit), table, FALSE)
        IN  /\ p_op = "none"
            /\ p_op' = "walk"
            /\ params' = PaginationParams(NilPtr, limit)
            /\ qlog' = r.queries
            /\ result' = r.result
            /\ err' = r.err
            /\ pages' = IF r.err = NoErr THEN <<r.result[1].Items>> ELSE <<>>
            /\ UNCHANGED <<table, cursorVars, analyzerVars, runVars, unitVars>>

\* The next call of the walk: the NextCursor just returned, the same limit.
\* The caller goes on while HasMore is set.
WalkNext ==
    /\ p_op = "walk"
    /\ err = NoErr
    /\ result[1].HasMore
    /\ Len(pages) < MaxCalls
    /\ LET p == PaginationParams(result[1].NextCursor, params.Limit)
           r == Paginate(p, table, FALSE)
       IN  /\ p_op' = "walk"
           /\ params' = p
           /\ qlog' = r.queries
           /\ result' = r.result
           /\ err' = r.err
           /\ pages' = IF r.err = NoErr THEN Append(pages, r.result[1].Items) ELSE pages
           /\ UNCHANGED <<table, cursorVars, analyzerVars, runVars, unitVars>>

\* extractParameters(query) on a query that has not been analysed yet
ExtractParametersCall ==
    /\ ~x_done
    /\ LET r == extractParameters(x_sql, x_params)
       IN  /\ x_done' = TRUE
           /\ x_params' = r.Parameters
           /\ x_err' = r.err
           /\ UNCHANGED <<x_sql, x_type, x_columns, x_db, x_log, x_analyzed,
                          cursorVars, pageVars, runVars, unitVars>>

\* The query of the analyzer, as AnalyzeQuery receives it.
CurrentQuery ==
    [SQL |-> x_sql, Type |-> x_type, Parameters |-> x_params, Columns |-> x_columns]

\* AnalyzeQuery(ctx, query) on a parsed query that has not been analysed yet
AnalyzeQueryCall ==
    /\ ~x_analyzed /\ ~x_done /\ x_db # NilPtr
    /\ \E r \in {AnalyzeQuery(CurrentQuery, x_db[1])} :
           /\ x_analyzed' = TRUE
           /\ x_done' = TRUE
           /\ x_params' = r.query.Parameters
           /\ x_columns' = r.query.Columns
           /\ x_err' = r.err
           /\ x_log' = r.log
           /\ UNCHANGED <<x_sql, x_type, x_db, cursorVars, pageVars, runVars, unitVars>>

\* AnalyzeQuery(ctx, nil)
AnalyzeNilQueryCall ==
    /\ ~x_analyzed /\ ~x_done /\ x_db # NilPtr
    /\ x_analyzed' = TRUE
    /\ x_err' = "query cannot be nil"
    /\ UNCHANGED <<x_sql, x_type, x_db, x_done, x_params, x_columns, x_log,
                   cursorVars, pageVars, runVars, unitVars>>

RunIdle ==
    /\ g_state = "Init"
    /\ g_queue = <<>>
    /\ g_ops = <<>>
    /\ g_err = NoErr

\* No generator run: an empty configuration and an empty directory.
NoRun ==
    /\ RunIdle
    /\ g_cfg = [DSN |-> "", Tables |-> FALSE, QueriesDir |-> ""]
    /\ g_env = [TEST_DATABASE_URL |-> "", queriesDirExists |-> FALSE,
                mkdirFails |-> FALSE]
    /\ g_dir = FALSE
    /\ g_files0 = <<>>
    /\ g_files = <<>>

UnitIdle == t_op = "none" /\ t_in = <<>> /\ t_out = <<>>

Abort(e) == g_state' = "Aborted" /\ g_err' = e

\* Generate: the configuration is validated first.
ValidateConfig ==
    /\ g_state = "Init"
    /\ LET r == Validate(g_cfg, g_env, g_dir)
       IN  /\ g_cfg' = r.cfg
           /\ g_dir' = r.dir
           /\ IF r.err # NoErr THEN Abort(r.err)
              ELSE g_state' = "Configured" /\ g_err' = NoErr
    /\ UNCHANGED <<g_env, g_files, g_files0, g_queue, g_ops,
                   cursorVars, pageVars, analyzerVars, unitVars>>

\* The files after every artifact of a list has been written.
RECURSIVE WriteAll(_, _)
WriteAll(files, artifacts) ==
    IF artifacts = <<>> THEN files
    ELSE WriteAll(WriteFile(files, Head(artifacts).name, Formatted(Head(artifacts))),
                  Tail(artifacts))

\* Introspect with every table module written as soon as its table has been
\* introspected.
Introspect_WritesTablesAtOnce ==
    /\ g_state = "Configured"
    /\ \E outcome \in {NoErr, "IntrospectionError", "UUIDKeyError", "TypeError"},
          tables \in TableLists :
        /\ g_cfg.Tables \/ tables = <<>>
        /\ IF outcome # NoErr
           THEN Abort(outcome) /\ UNCHANGED <<g_queue, g_files, g_ops>>
           ELSE /\ g_state' = "Introspected" /\ g_err' = NoErr
                /\ g_queue' = <<>>
                /\ g_files' = WriteAll(g_files, TableArtifacts(tables, {}))
                /\ g_ops' = g_ops \o [i \in 1..(Len(tables) + 1) |->
                              [op |-> "write", name |-> TableArtifacts(tables, {})[i].name]]
    /\ UNCHANGED <<g_cfg, g_env, g_dir, g_files0,
                   cursorVars, pageVars, analyzerVars, unitVars>>

\* Generate: the tables are introspected, their primary keys validated and
\* their column types resolved; the pagination module and the table modules
\* are planned.
Introspect ==
    /\ g_state = "Configured"
    /\ \E outcome \in {NoErr, "IntrospectionError", "UUIDKeyError", "TypeError"},
          tables \in TableLists :
        /\ g_cfg.Tables \/ tables = <<>>
        /\ IF outcome # NoErr THEN Abort(outcome) /\ UNCHANGED g_queue
           ELSE /\ g_state' = "Introspected" /\ g_err' = NoErr
                /\ \E invalid \in InvalidChoices(TableArtifacts(tables, {})) :
                       g_queue' = TableArtifacts(tables, invalid)
    /\ UNCHANGED <<g_cfg, g_env, g_dir, g_files, g_files0, g_ops,
                   cursorVars, pageVars, analyzerVars, unitVars>>

\* Generate: the query files are parsed and every query is analysed; the
\* query modules are planned.
AnalyzeQueries ==
    /\ g_state = "Introspected"
    /\ \E outcome \in {NoErr, "ParseError", "AnalysisError"},
          queryFiles \in QueryFileLists :
        /\ g_cfg.QueriesDir # "" \/ queryFiles = <<>>
        /\ IF outcome # NoErr THEN Abort(outcome) /\ UNCHANGED g_queue
           ELSE /\ g_state' = "Analyzed" /\ g_err' = NoErr
                /\ \E invalid \in InvalidChoices(QueryArtifacts(queryFiles, {})) :
                       g_queue' = g_queue \o QueryArtifacts(queryFiles, invalid)
    /\ UNCHANGED <<g_cfg, g_env, g_dir, g_files, g_files0, g_ops,
                   cursorVars, pageVars, analyzerVars, unitVars>>

\* Generate: the descriptors are handed to the emission engine.
StartEmitting ==
    /\ g_state = "Analyzed"
    /\ g_state' = "Emitting"
    /\ UNCHANGED <<g_cfg, g_env, g_dir, g_files, g_files0, g_queue, g_ops, g_err,
                   cursorVars, pageVars, analyzerVars, unitVars>>

\* The next artifact is rendered, formatted and written.
EmitArtifact ==
    /\ g_state = "Emitting" /\ g_queue # <<>>
    /\ \E fault \in DiskFaults :
        LET r == writeCodeToFile(g_files, Head(g_queue), fault)
        IN  /\ g_files' = r.files
            /\ g_ops' = g_ops \o r.ops
            /\ g_queue' = Tail(g_queue)
            /\ IF r.err # NoErr THEN Abort(r.err)
               ELSE g_state' = "Emitting" /\ g_err' = NoErr
    /\ UNCHANGED <<g_cfg, g_env, g_dir, g_files0,
                   cursorVars, pageVars, analyzerVars, unitVars>>

\* Every artifact has been written.
FinishRun ==
    /\ g_state = "Emitting" /\ g_queue = <<>>
    /\ g_state' = "Done"
    /\ UNCHANGED <<g_cfg, g_env, g_dir, g_files, g_files0, g_queue, g_ops, g_err,
                   cursorVars, pageVars, analyzerVars, unitVars>>

\* QueryParser.ValidateQuery(query)
ValidateQueryCall ==
    /\ t_op = "none"
    /\ \E q \in ParsedQueries :
        /\ t_op' = "ValidateQuery"
        /\ t_in' = q
        /\ t_out' = [err |-> ValidateQuery(q)]
    /\ UNCHANGED <<cursorVars, pageVars, analyzerVars, runVars>>

\* NewTypeMapper(customMappings).MapType(pgType, isNullable, isArray)
MapTypeCall ==
    /\ t_op = "none"
    /\ \E c \in CustomMappingSets, p \in PgTypeSamples, n \in BOOLEAN, a \in BOOLEAN :
        /\ t_op' = "MapType"
        /\ t_in' = [customMappings |-> c, pgType |-> p, isNullable |-> n, isArray |-> a]
        /\ t_out' = MapType(c, p, n, a)
    /\ UNCHANGED <<cursorVars, pageVars, analyzerVars, runVars>>

\* ValidateUUIDPrimaryKey(table.GetPrimaryKeyColumn()) on an introspected table
AcceptTableCall ==
    /\ t_op = "none"
    /\ \E t \in PkTables :
        /\ t_op' = "AcceptTable"
        /\ t_in' = t
        /\ t_out' = [column |-> GetPrimaryKeyColumn(t), err |-> AcceptTable(t)]
    /\ UNCHANGED <<cursorVars, pageVars, analyzerVars, runVars>>

\* main with a configuration file: flags, --config, Merge
MainCall ==
    /\ t_op = "none"
    /\ \E flags \in CommandLines, env \in MainEnvironments, f \in FileConfigs :
        /\ t_op' = "main"
        /\ t_in' = [flags |-> flags, env |-> env, file |-> Ptr(f)]
        /\ t_out' = main(flags, env, Ptr(f))
    /\ UNCHANGED <<cursorVars, pageVars, analyzerVars, runVars>>

\* main without a configuration file
MainNoFileCall ==
    /\ t_op = "none"
    /\ \E flags \in CommandLines, env \in MainEnvironments :
        /\ t_op' = "main"
        /\ t_in' = [flags |-> flags, env |-> env, file |-> NilPtr]
        /\ t_out' = main(flags, env, NilPtr)
    /\ UNCHANGED <<cursorVars, pageVars, analyzerVars, runVars>>

\* replaceParametersForExplain(sql, parameters) on a text without literals
ReplaceParametersCall ==
    /\ t_op = "none"
    /\ \E in \in ExplainTokenLists :
        /\ t_op' = "replaceParametersForExplain"
        /\ t_in' = in
        /\ t_out' = replaceParametersForExplain(Concat(in.tokens), DenseParameters(in.n))
    /\ UNCHANGED <<cursorVars, pageVars, analyzerVars, runVars>>

\* replaceParametersForExplain(sql, parameters) on a text with a literal
ReplaceParametersLiteralCall ==
    /\ t_op = "none"
    /\ \E in \in ExplainLiteralTokenLists :
        /\ t_op' = "replaceParametersForExplain: literal"
        /\ t_in' = in
        /\ t_out' = replaceParametersForExplain(Concat(in.tokens), DenseParameters(in.n))
    /\ UNCHANGED <<cursorVars, pageVars, analyzerVars, runVars>>

\* cfg.ShouldIncludeTable(tableName)
ShouldIncludeTableCall ==
    /\ t_op = "none"
    /\ \E inc \in PatternLists, exc \in PatternLists, n \in TableNames :
        /\ t_op' = "ShouldIncludeTable"
        /\ t_in' = [Include |-> inc, Exclude |-> exc, tableName |-> n]
        /\ t_out' = [included |->
                        ShouldIncludeTable([Include |-> inc, Exclude |-> exc], n)]
    /\ UNCHANGED <<cursorVars, pageVars, analyzerVars, runVars>>

\* The cursor helpers, called on their own.
InitHelpers ==
    /\ CursorIdle
    /\ PageIdle /\ table = <<>>
    /\ NoRun /\ UnitIdle
    /\ AnalyzerIdle /\ NoDatabase /\ x_sql = <<>>

NextHelpers == EncodeCursorCall \/ DecodeCursorCall \/ DecodeEncodedCall \/ ValidateCall

SpecHelpers == InitHelpers /\ [][NextHelpers]_vars

\* Paginate over a fixed set of backing rows.
InitPage ==
    /\ CursorIdle
    /\ PageIdle /\ table \in Tables
    /\ NoRun /\ UnitIdle
    /\ AnalyzerIdle /\ NoDatabase /\ x_sql = <<>>

NextPage == PaginateCall \/ WalkStart \/ WalkNext

SpecPage == InitPage /\ [][NextPage]_vars

\* The analyzer's parameter extraction on one query text.
InitAnalyzer ==
    /\ CursorIdle
    /\ PageIdle /\ table = <<>>
    /\ NoRun /\ UnitIdle
    /\ AnalyzerIdle /\ NoDatabase /\ x_sql \in SqlTexts

NextAnalyzer == ExtractParametersCall

SpecAnalyzer == InitAnalyzer /\ [][NextAnalyzer]_vars

\* The parameter extraction on query texts that hold literals and comments.
InitLiteral ==
    /\ CursorIdle
    /\ PageIdle /\ table = <<>>
    /\ NoRun /\ UnitIdle
    /\ AnalyzerIdle /\ NoDatabase /\ x_sql \in LiteralSqlTexts

SpecLiteral == InitLiteral /\ [][NextAnalyzer]_vars

\* AnalyzeQuery on one parsed query against a database.
InitAnalyze ==
    /\ CursorIdle
    /\ PageIdle /\ table = <<>>
    /\ NoRun /\ UnitIdle
    /\ AnalyzerIdle
    /\ x_sql \in AnalyzeSqlTexts
    /\ x_type \in QueryTypes
    /\ x_db \in {Ptr(d) : d \in DbScripts(x_type)}

NextAnalyze == AnalyzeQueryCall \/ AnalyzeNilQueryCall

SpecAnalyze == InitAnalyze /\ [][NextAnalyze]_vars

\* One run of the generator over an output directory.
InitRun ==
    /\ CursorIdle
    /\ PageIdle /\ table = <<>>
    /\ AnalyzerIdle /\ NoDatabase /\ x_sql = <<>>
    /\ UnitIdle
    /\ RunIdle
    /\ g_cfg \in Configs
    /\ g_env \in Environments
    /\ g_files0 \in InitialFiles
    /\ g_files = g_files0
    /\ g_dir \in {TRUE} \cup {d \in {FALSE} : g_files0 = <<>>}

NextRun ==
    \/ ValidateConfig \/ Introspect \/ AnalyzeQueries \/ StartEmitting
    \/ EmitArtifact \/ FinishRun

SpecRun == InitRun /\ [][NextRun]_vars

\* The parser's and the type mapper's functions, called on their own.
NextUnits == ValidateQueryCall \/ MapTypeCall \/ AcceptTableCall

SpecUnits == InitHelpers /\ [][NextUnits]_vars

\* The substitution of placeholders, called on its own.
NextExplain == ReplaceParametersCall \/ ReplaceParametersLiteralCall

SpecExplain == InitHelpers /\ [][NextExplain]_vars

\* The table filter, called on its own.
NextFilter == ShouldIncludeTableCall

SpecFilter == InitHelpers /\ [][NextFilter]_vars

\* The command-line program up to the call of the generator.
NextMain == MainCall \/ MainNoFileCall

SpecMain == InitHelpers /\ [][NextMain]_vars

Init ==
    InitHelpers \/ InitPage \/ InitAnalyzer \/ InitLiteral \/ InitAnalyze \/ InitRun

Next ==
    NextHelpers \/ NextPage \/ NextAnalyzer \/ NextAnalyze \/ NextRun \/ NextUnits
    \/ NextMain \/ NextExplain \/ NextFilter

Spec == Init /\ [][Next]_vars

-----------------------------------------------------------------------------
(* Properties *)

\* The limit and the rows of the one query a successful Paginate call made.
QueryRan == p_op # "none" /\ err = NoErr /\ Len(qlog) = 1

\* C1: when the query of a Paginate call with effective limit L returns
\* L+1 items, the result holds exactly the first L of them in order,
\* HasMore is true and NextCursor is EncodeCursor of the id of the L-th item.
C1_TrimmedToLimit ==
    (QueryRan /\ Len(qlog[1].items) = EffectiveLimit(params) + 1) =>
        /\ result # NilPtr
        /\ result[1].Items = SubSeq(qlog[1].items, 1, EffectiveLimit(params))
        /\ result[1].HasMore = TRUE
        /\ result[1].NextCursor =
               Ptr(EncodeCursor(GetID(qlog[1].items[EffectiveLimit(params)])))

C1_Witness ==
    /\ p_op = "call" /\ QueryRan
    /\ params.Limit = 2
    /\ Len(qlog[1].items) = 3
    /\ Len(result[1].Items) = 2
    /\ result[1].NextCursor # NilPtr

\* C2: when the query of a Paginate call with effective limit L returns L
\* items or fewer, the result holds all of them unchanged, HasMore is false
\* and NextCursor is nil.
C2_WholePage ==
    (QueryRan /\ Len(qlog[1].items) <= EffectiveLimit(params)) =>
        /\ result # NilPtr
        /\ result[1].Items = qlog[1].items
        /\ result[1].HasMore = FALSE
        /\ result[1].NextCursor = NilPtr

C2_Witness ==
    /\ p_op = "call" /\ QueryRan
    /\ params.Limit = 2
    /\ Len(qlog[1].items) = 2
    /\ result[1].Items = table
    /\ ~result[1].HasMore

\* C3: a walk (first call without cursor, then each call with the
\* NextCursor of the one before, the limit fixed) returns consecutive pages
\* that do not overlap, is over within as many calls as there are rows (one
\* call when there are none), and once HasMore is false has returned every
\* row exactly once and carries no NextCursor.
C3_WalkReturnsEveryRowOnce ==
    (p_op = "walk" /\ err = NoErr) =>
        /\ NoDuplicates(Concat(pages))
        /\ Len(Concat(pages)) <= Len(table)
        /\ Concat(pages) = SubSeq(table, 1, Len(Concat(pages)))
        /\ Len(pages) <= (IF Len(table) = 0 THEN 1 ELSE Len(table))
        /\ ~result[1].HasMore =>
               Concat(pages) = table /\ result[1].NextCursor = NilPtr

\* The limits of the generated pagination module, as the claims state them.
DefaultLimit == 20

MaxLimit == 100

ClaimedEffectiveLimit(limit) ==
    IF limit = 0 THEN DefaultLimit ELSE Min(limit, MaxLimit)

CursorAbsentOrValid(p) ==
    ~CursorProvided(p) \/ DecodeCursor(p.Cursor[1]).err = NoErr

\* C4: a Paginate call with limit >= 0 (cursor absent or valid, query not
\* failing) succeeds and asks the query for exactly effective limit + 1
\* rows, the effective limit being 20 for limit 0 and min(limit, 100)
\* otherwise.
C4_DefaultAndCappedLimit ==
    (p_op = "call" /\ params.Limit >= 0 /\ CursorAbsentOrValid(params)
         /\ err # QueryError) =>
        /\ err = NoErr
        /\ Len(qlog) = 1
        /\ qlog[1].limit = ClaimedEffectiveLimit(params.Limit) + 1

\* C5: ValidatePaginationParams fails for every limit < 0 and every limit >
\* 100, and succeeds for limit = 100 with an absent or valid cursor.
C5_LimitRange ==
    c_op = "validate" =>
        /\ c_in.Limit < 0 => c_out # NoErr
        /\ c_in.Limit > MaxLimit => c_out # NoErr
        /\ (c_in.Limit = MaxLimit /\ CursorAbsentOrValid(c_in)) => c_out = NoErr

\* C6: a Paginate call whose cursor is non-empty and does not decode to a
\* UUID returns an error and no result, and runs no query.
C6_BadCursorRunsNoQuery ==
    (p_op # "none" /\ CursorProvided(params)
         /\ DecodeCursor(params.Cursor[1]).err # NoErr) =>
        /\ err # NoErr
        /\ result = NilPtr
        /\ qlog = <<>>

C6_Witness ==
    /\ p_op = "call"
    /\ params.Limit = 2
    /\ params.Cursor \in {Ptr(b) : b \in BadCursors}
    /\ err = "decode: invalid cursor format"
    /\ qlog = <<>>

C8_DecodeRejectsNonCursors ==
    (c_op = "decode"
         /\ (\/ c_in = <<>>
             \/ DecodeString(c_in).err
             \/ Len(DecodeString(c_in).data) # UUIDLen)) =>
        c_out.err # NoErr

\* The placeholders of a query text: each `$` directly followed by a digit,
\* with the value of the longest run of digits after it.
UsedIndices(sqlText) ==
    {Atoi(SubSeq(sqlText, p + 1, DigitsEnd(sqlText, p + 1))) :
         p \in {q \in 1..Len(sqlText) : CanMatchAt(sqlText, q)}}

Dense(S) == S = 1..Cardinality(S)

\* C9: extractParameters fails whenever the placeholder indices used in the
\* SQL are not exactly 1..max.
C9_GapsAreFatal ==
    (x_done /\ ~Dense(UsedIndices(x_sql))) => x_err # NoErr

\* C10: when the placeholders used in the SQL are exactly $1..$N (in any
\* order, repeated or not), extractParameters succeeds with exactly N
\* parameters of indices 1..N ascending; with no placeholder the list is
\* empty and not nil.
C10_DenseYieldsOneToN ==
    (x_done /\ Dense(UsedIndices(x_sql))) =>
        /\ x_err = NoErr
        /\ x_params # NilSlice
        /\ Len(x_params[1]) = Cardinality(UsedIndices(x_sql))
        /\ \A i \in 1..Len(x_params[1]) : x_params[1][i].Index = i

\* The view of a query text in which every character of a string literal
\* ('...', quotes included) and of a line comment (from -- to the end of the
\* line) is replaced by a blank.  mode: "sql", "str" or "cmt".
RECURSIVE MaskFrom(_, _, _)
MaskFrom(s, i, mode) ==
    IF i > Len(s) THEN <<>>
    ELSE IF mode = "str"
    THEN <<" ">> \o MaskFrom(s, i + 1, IF s[i] = "'" THEN "sql" ELSE "str")
    ELSE IF mode = "cmt"
    THEN IF s[i] = "\n" THEN <<"\n">> \o MaskFrom(s, i + 1, "sql")
         ELSE <<" ">> \o MaskFrom(s, i + 1, "cmt")
    ELSE IF s[i] = "'" THEN <<" ">> \o MaskFrom(s, i + 1, "str")
    ELSE IF s[i] = "-" /\ i + 1 <= Len(s) /\ s[i + 1] = "-"
    THEN <<" ">> \o MaskFrom(s, i + 1, "cmt")
    ELSE <<s[i]>> \o MaskFrom(s, i + 1, "sql")

MaskLiteralsAndComments(s) == MaskFrom(s, 1, "sql")

\* C11: $N inside a string literal or a line comment is not counted: the
\* parameters extracted from a query text (and the error of the density
\* check) are those extracted from the text with its literals and comments
\* blanked out.
C11_LiteralsAndCommentsIgnored ==
    x_done =>
        LET r == extractParameters(MaskLiteralsAndComments(x_sql), NilSlice)
        IN  x_params = r.Parameters /\ x_err = r.err

\* AnalyzeQuery returned without an error: the query is accepted.
Accepted == x_analyzed /\ x_err = NoErr

\* C12: after a query has been accepted by analysis, its column list is
\* non-empty if and only if its kind is one, many or paginated.
C12_ColumnsIffResultKind ==
    Accepted => (LenOf(x_columns) > 0 <=> isSelectQuery(x_type))

\* The positions of the log at which an operation of the given kind occurs.
OpsAt(kind) == {i \in 1..Len(x_log) : x_log[i].op = kind}

\* C13: whenever an exec query is validated by preparing it, the transaction
\* opened for the prepare is rolled back on every path (prepare succeeds,
\* prepare fails, parameter count mismatch) and is never committed: the
\* rollback is the last operation issued, after the prepare.
C13_PrepareAlwaysRolledBack ==
    (x_analyzed /\ x_type = QueryTypeExec /\ OpsAt("Prepare") # {}) =>
        /\ OpsAt("Commit") = {}
        /\ OpsAt("Rollback") = {Len(x_log)}
        /\ \A i \in OpsAt("Prepare") : i < Len(x_log) /\ x_log[i].tx
        /\ \E b \in OpsAt("Begin") : \A i \in OpsAt("Prepare") : b < i

\* An exec query whose prepare succeeded with one more parameter than the
\* text has: rejected for the count mismatch, and rolled back.
C13_Witness ==
    /\ x_analyzed /\ x_type = QueryTypeExec
    /\ ~x_db[1].beginErr /\ ~x_db[1].prepareErr
    /\ Len(x_db[1].paramOIDs) = 2 /\ LenOf(x_params) = 1
    /\ x_err = "query syntax validation failed"
    /\ x_log = <<DbBegin, DbPrepare(x_sql), DbRollback>>

\* C14: for a result-producing query (one, many, paginated), every describe
\* operation the analyzer issues runs inside a transaction of its own, opened
\* before it and rolled back after it whatever the outcome.
C14_DescribeInRolledBackTransaction ==
    (x_analyzed /\ isSelectQuery(x_type)) =>
        \A i \in OpsAt("Query") :
            /\ x_log[i].tx
            /\ \E b \in OpsAt("Begin") : b < i
            /\ \E r \in OpsAt("Rollback") : r > i

C16_FormatBeforeWrite ==
    [][/\ (g_state = "Emitting" /\ g_queue # <<>> /\ ~Head(g_queue).valid) =>
            (g_files' = g_files /\ g_ops' = g_ops
             /\ g_state' = "Aborted" /\ g_err' = FormatError)
       /\ (g_files' # g_files) =>
            (g_state = "Emitting" /\ g_queue # <<>> /\ Head(g_queue).valid)]_vars

\* A run aborted by the formatter on its second artifact: the first file is
\* written, the rejected one is not.
C16_Witness ==
    /\ g_state = "Aborted" /\ g_err = FormatError
    /\ Len(g_ops) = 1
    /\ TableFileName("posts") \notin DOMAIN g_files
    /\ g_files[PaginationFileName] = Formatted(Artifact(PaginationFileName, <<"pagination">>, TRUE))

PreEmissionStates == {"Init", "Configured", "Introspected", "Analyzed"}

\* C17: no artifact is written before the run reaches Emitting: in every
\* earlier state, and after a run aborted by configuration validation,
\* introspection, type resolution, query parsing or query analysis, no file
\* operation has happened and the directory holds what it held before.
C17_NothingWrittenBeforeEmitting ==
    (\/ g_state \in PreEmissionStates
     \/ g_state = "Aborted" /\ g_err \notin {FormatError, WriteError}) =>
        (g_ops = <<>> /\ g_files = g_files0)

\* A run aborted by query analysis after two table modules were planned.
C17_Witness ==
    /\ g_state = "Aborted" /\ g_err = "AnalysisError"
    /\ Len(g_queue) = 3
    /\ g_ops = <<>>
    /\ TableFileName("users") \in DOMAIN g_files0

\* C18: a query whose body begins, after its leading white space and in any
\* letter case, with SELECT or WITH is rejected when its kind is exec, and
\* one whose body begins with INSERT, UPDATE or DELETE is rejected unless its
\* kind is exec.
C18_ShapeMatchesKind ==
    t_op = "ValidateQuery" =>
        LET body == ToUpper(TrimLeft(t_in.SQL))
        IN  /\ (BeginsWithAny(body, {KwSelect, KwWith}) /\ t_in.Type = QueryTypeExec)
                => t_out.err # NoErr
            /\ (BeginsWithAny(body, {KwInsert, KwUpdate, KwDelete})
                 /\ t_in.Type # QueryTypeExec)
                => t_out.err # NoErr

\* A well-named query of kind one whose body is "delete x" in lower case
\* behind a newline and a tab: rejected for its shape.
C18_Witness ==
    /\ t_op = "ValidateQuery"
    /\ t_in.Name = <<"G", "e", "t">> /\ t_in.Type = QueryTypeOne
    /\ t_in.SQL = <<"\n", "\t", "d", "e", "l", "e", "t", "e", " ", "x">>
    /\ t_out.err = ShapeError

\* The expression MapType builds around a base type.
TypeExpression(base, isNullable, isArray) ==
    LET elem == IF isNullable THEN makeNullable(<<base>>) ELSE <<base>>
    IN  IF isArray THEN <<"[]">> \o elem ELSE elem

\* C19: type resolution consults the override table first (exact key), then
\* the built-in mapping, and fails with the unsupported-type error exactly
\* when neither holds the type; an override of a built-in type replaces the
\* built-in result.
C19_OverridesBeforeBuiltins ==
    t_op = "MapType" =>
        LET c == t_in.customMappings
            p == t_in.pgType
        IN  /\ p \in DOMAIN c =>
                /\ t_out.err = NoErr
                /\ t_out.goType = TypeExpression(c[p], t_in.isNullable, t_in.isArray)
            /\ (p \notin DOMAIN c /\ p \in DOMAIN BuiltinMappings) =>
                /\ t_out.err = NoErr
                /\ t_out.goType =
                       TypeExpression(BuiltinMappings[p], t_in.isNullable, t_in.isArray)
            /\ (p \notin DOMAIN c /\ p \notin DOMAIN BuiltinMappings) =>
                t_out.err = UnsupportedType

\* uuid mapped by a mapper that overrides uuid: the override is the result.
C19_Witness ==
    /\ t_op = "MapType"
    /\ t_in.pgType = "uuid" /\ "uuid" \in DOMAIN t_in.customMappings
    /\ ~t_in.isNullable /\ ~t_in.isArray
    /\ t_out.err = NoErr /\ t_out.goType = <<"MyUUID">>

\* C20: a table is accepted for emission exactly when it has one primary-key
\* column and that column is of type uuid (in any letter case), not nullable
\* and not an array.
C20_SingleUuidPrimaryKey ==
    t_op = "AcceptTable" =>
        (t_out.err = NoErr <=>
            /\ Len(t_in.PrimaryKey) = 1
            /\ \E i \in 1..Len(t_in.Columns) :
                   /\ t_in.Columns[i].Name = t_in.PrimaryKey[1]
                   /\ ToLower(t_in.Columns[i].Type) = TypeUUID
                   /\ ~t_in.Columns[i].IsNullable
                   /\ ~t_in.Columns[i].IsArray)

\* A table whose single key column is declared UUID in upper case: accepted.
C20_Witness ==
    /\ t_op = "AcceptTable"
    /\ t_in.PrimaryKey = <<"id">>
    /\ t_in.Columns[1].Type = <<"U", "U", "I", "D">>
    /\ t_out.err = NoErr
    /\ t_out.column = Ptr(t_in.Columns[1])

\* C21: a configuration with neither table mode nor a queries directory is
\* rejected: the run ends aborted with an error and never reaches
\* introspection, analysis or emission.
C21_NoModeRejected ==
    (~g_cfg.Tables /\ g_cfg.QueriesDir = "") =>
        /\ g_state \in {"Init", "Aborted"}
        /\ g_state = "Aborted" => g_err # NoErr
        /\ g_ops = <<>>

\* A configuration with a DSN and no mode, rejected for the missing mode.
C21_Witness ==
    /\ g_state = "Aborted"
    /\ g_cfg.DSN # "" /\ ~g_cfg.Tables /\ g_cfg.QueriesDir = ""
    /\ g_err = "must enable either table generation or query generation"

\* The configuration field an option is stored in.
OptionField ==
    [dsn |-> "DSN", schema |-> "Schema", output |-> "OutputDir",
     package |-> "PackageName", queries |-> "QueriesDir", tables |-> "Tables",
     include |-> "Include", exclude |-> "Exclude", verbose |-> "Verbose"]

\* C22: with a configuration file, the effective value of every option is
\* the command-line value if the option was given on the command line, and
\* the file's value otherwise.
C22_CommandLineOverFile ==
    (t_op = "main" /\ t_in.file # NilPtr /\ t_out.cfg # NilPtr) =>
        \A o \in DOMAIN OptionField :
            t_out.cfg[1][OptionField[o]] =
                IF t_in.flags[o] # NilPtr THEN t_in.flags[o][1]
                ELSE LoadConfig(t_in.file[1])[OptionField[o]]

PlaceholdersAsNull(tokens) ==
    Concat([i \in 1..Len(tokens) |->
               IF tokens[i] # <<>> /\ Head(tokens[i]) = "$"
               THEN getDummyValueForParameter(i) ELSE tokens[i]])

\* C25: replaceParametersForExplain substitutes NULL for the placeholders
\* outside string literals only: a $N inside a quoted string literal is
\* left as it is.
C25_LiteralsLeftUnchanged ==
    t_op = "replaceParametersForExplain: literal" =>
        t_out = PlaceholdersAsNull(t_in.tokens)

\* C28: given the parameters 1..N of a text whose placeholders are $1..$N,
\* replaceParametersForExplain replaces each placeholder as a whole token
\* ($1 never rewrites the front of $10), and no $k with 1 <= k <= N remains.
C28_WholeTokensReplaced ==
    t_op = "replaceParametersForExplain" =>
        /\ t_out = PlaceholdersAsNull(t_in.tokens)
        /\ UsedIndices(t_out) \cap 1..t_in.n = {}

\* $10 directly behind $1 in a text of ten placeholders: both became NULL.
C28_Witness ==
    /\ t_op = "replaceParametersForExplain"
    /\ t_in.n = 10
    /\ SubSeq(Concat(t_in.tokens), 1, 5) = <<"$", "1", "0", "$", "1">>
    /\ SubSeq(t_out, 1, 8) = <<"N", "U", "L", "L", "N", "U", "L", "L">>

MatchesAny(patterns, name) ==
    \E i \in 1..Len(patterns) : Match(patterns[i], name)

\* C26: a table is selected exactly when it matches no exclude pattern and
\* the include list is empty or one of its patterns matches; a table that
\* matches an include and an exclude pattern is not selected.
C26_ExcludeThenInclude ==
    t_op = "ShouldIncludeTable" =>
        /\ t_out.included <=>
               /\ ~MatchesAny(t_in.Exclude, t_in.tableName)
               /\ (t_in.Include = <<>> \/ MatchesAny(t_in.Include, t_in.tableName))
        /\ (MatchesAny(t_in.Include, t_in.tableName)
             /\ MatchesAny(t_in.Exclude, t_in.tableName)) => ~t_out.included

\* Table "ab" with include a* and exclude ?b: not selected.
C26_Witness ==
    /\ t_op = "ShouldIncludeTable"
    /\ t_in.tableName = <<"a", "b">>
    /\ t_in.Include = <<<<"a", "*">>>> /\ t_in.Exclude = <<<<"?", "b">>>>
    /\ ~t_out.included

\* C27: in every successful pagination result, HasMore is set exactly when
\* NextCursor is present and not empty, and a NextCursor that is present
\* decodes to the id of the last item returned.
C27_NextCursorIffHasMore ==
    (p_op # "none" /\ err = NoErr) =>
        LET r == result[1]
        IN  /\ r.HasMore <=> (r.NextCursor # NilPtr /\ r.NextCursor[1] # <<>>)
            /\ r.NextCursor # NilPtr =>
                   /\ Len(r.Items) > 0
                   /\ DecodeCursor(r.NextCursor[1]) =
                          [id |-> GetID(r.Items[Len(r.Items)]), err |-> NoErr]

\* The errors of the checks Validate makes before it creates the directory.
CheckErrors ==
    { "database connection string (DSN) is required",
      "must enable either table generation or query generation",
      "queries directory does not exist" }

\* C29: Config.Validate creates the output directory only after every other
\* check has passed: a validation that fails for a missing DSN, for no
\* enabled mode or for a queries directory that does not exist leaves the
\* file system as it was, and the directory appears only in a validation
\* that succeeds.
C29_DirectoryCreatedLast ==
    [][ /\ (g_state = "Init" /\ g_err' \in CheckErrors) =>
               (g_dir' = g_dir /\ g_files' = g_files)
        /\ (g_dir' # g_dir) => (g_state = "Init" /\ g_state' = "Configured") ]_vars

\* A configuration with a DSN and a queries directory that does not exist,
\* over an output directory that does not exist: rejected, nothing created.
C29_Witness ==
    /\ g_state = "Aborted" /\ g_err = "queries directory does not exist"
    /\ g_cfg.DSN # "" /\ ~g_env.mkdirFails
    /\ ~g_dir /\ g_files = <<>>

\* C30: AnalyzeQuery extracts the parameters before any database access:
\* when the extraction fails, that error is returned and no operation (no
\* describe, no transaction, no prepare) has been issued against the
\* database for the query.
C30_ExtractionBeforeDatabase ==
    (x_analyzed /\ x_done /\ extractParameters(x_sql, NilSlice).err # NoErr) =>
        /\ x_err = "failed to extract parameters"
        /\ x_log = <<>>
        /\ x_columns = NilSlice

\* The query text "$2", whose parameter $1 is missing, analysed against a
\* database: rejected with nothing sent to the database.
C30_Witness ==
    /\ x_analyzed /\ x_done /\ x_db # NilPtr
    /\ x_sql = <<"$", "2">>
    /\ x_err = "failed to extract parameters"
    /\ x_log = <<>>

====
